---- MODULE Spec2Model ----
(***************************************************************************)
(* Payments and the progressive rent tax of the property management        *)
(* system: dashboard/tax.py (compute_tax_for_payment and its helpers),    *)
(* the payment create / update / delete views of dashboard/views.py and    *)
(* the generate_payments management command; the deletion of rental       *)
(* agreements (leases/views.py); registration (users/views.py) and the     *)
(* tenant invitations (notifications/models.py, notifications/views).      *)
(*                                                                         *)
(* Numbers.  The code computes in Python floats.  Here money entered by a  *)
(* user (base_rent and the fees) is a whole number of currency units, and  *)
(* money the code derives (tax_amount, total_amount) is a whole number of  *)
(* mills (1/1000 unit), so that x * 0.085 and x * 0.125 are exact.  A rate *)
(* (tax_amount / base_rent) is the exact fraction <<num, den>> in lowest   *)
(* terms: 0.085 is <<17, 200>>.  The rounding of IEEE-754 doubles is below *)
(* this resolution.                                                        *)
(***************************************************************************)
EXTENDS Integers, Sequences, FiniteSets, TLC

VARIABLES
    payments,   \* the Payment table: pk -> row
    nextPk,     \* the next primary key the table hands out
    last,       \* the last operation: its name, the object it worked on, what the tax engine returned,
                \* for an update the date_due the row had before, and the rows it wrote
    agreements, \* the RentalAgreement table: the pks of the stored rows of RentalAgreementTable
    requests,   \* the create requests in flight: request -> what form_valid holds before obj.save()
    users,      \* the CustomUser table: email -> role
    tenants,    \* the Tenant table: the emails of the users that have a Tenant profile
    landlords,  \* the Landlord table: the emails of the users that have a Landlord profile
    invitations,\* the TenantInvitation table: id (also its token) -> row
    nextInv,    \* the next id the TenantInvitation table hands out
    now,        \* timezone.now(), in days
    reply       \* the last request or command on accounts and invitations, and its answer

\* payments and leases
ledger == <<payments, nextPk, last, agreements, requests>>
\* users and invitations
accounts == <<users, tenants, landlords, invitations, nextInv, now, reply>>

vars == <<payments, nextPk, last, agreements, requests,
          users, tenants, landlords, invitations, nextInv, now, reply>>

(***************************************************************************)
(* Python values                                                           *)
(***************************************************************************)
\* A missing object reference or primary key (Python None).
None == 0

\* The value of a numeric attribute: a float, None, or a non-numeric string.
Float(x) == [t |-> "float", v |-> x]
NoneValue == [t |-> "None", v |-> 0]
TextValue == [t |-> "str", v |-> 0]

\* A calendar date, and the absent date.
Date(y, m, d) == [year |-> y, month |-> m, day |-> d]
NoDate == [year |-> 0, month |-> 0, day |-> 0]

\* a <= b on dates: what date_due__lte would select
DateLe(a, b) ==
    \/ a.year < b.year
    \/ a.year = b.year /\ a.month < b.month
    \/ a.year = b.year /\ a.month = b.month /\ a.day <= b.day

\* a < b on dates
DateLt(a, b) ==
    \/ a.year < b.year
    \/ a.year = b.year /\ a.month < b.month
    \/ a.year = b.year /\ a.month = b.month /\ a.day < b.day

\* A character string (a sequence of one-letter strings), None, or a non-string.
Str(s) == [t |-> "str", v |-> s]
NoneStr == [t |-> "None", v |-> <<>>]
IntStr == [t |-> "int", v |-> <<>>]

UpperChar(c) ==
    CASE c = "p" -> "P"
      [] c = "l" -> "L"
      [] c = "d" -> "D"
      [] c = "e" -> "E"
      [] OTHER -> c

\* str.upper()
Upper(s) == [i \in DOMAIN s |-> UpperChar(s[i])]

(***************************************************************************)
(* Exact fractions                                                         *)
(***************************************************************************)
RECURSIVE GCD(_, _)
GCD(a, b) == IF b = 0 THEN a ELSE GCD(b, a % b)

Abs(x) == IF x < 0 THEN 0 - x ELSE x

\* n / d in lowest terms with a positive denominator (d # 0)
Rat(n, d) ==
    LET g == GCD(Abs(n), Abs(d))
        sign == IF (n < 0) # (d < 0) THEN 0 - 1 ELSE 1
    IN  <<sign * (Abs(n) \div g), Abs(d) \div g>>

\* the number of mills in one currency unit
Mills == 1000

(***************************************************************************)
(* The related objects a payment's rental agreement leads to.  Rows 1..8,  *)
(* 14 and 15 of RentalAgreementTable are rows the database can hold; the   *)
(* others are objects that exist only in memory (a landlord without a      *)
(* country code, a unit without a building, ...): every foreign key on the *)
(* path is NOT NULL in the schema.                                         *)
(***************************************************************************)
\* users.Landlord: tax_residency_country
LandlordTable ==
    [l \in 1..7 |->
        CASE l = 1 -> [tax_residency_country |-> Str(<<"P", "L">>)]
          [] l = 2 -> [tax_residency_country |-> Str(<<"D", "E">>)]
          [] l = 3 -> [tax_residency_country |-> Str(<<"p", "l">>)]
          [] l = 4 -> [tax_residency_country |-> Str(<<>>)]
          [] l = 5 -> [tax_residency_country |-> NoneStr]
          [] l = 6 -> [tax_residency_country |-> IntStr]
          [] l = 7 -> [tax_residency_country |-> Str(<<"P", "l">>)]]

\* properties.Property: landlord
PropertyTable ==
    [q \in 1..8 |-> [landlord |-> CASE q = 7 -> None [] q = 8 -> 7 [] OTHER -> q]]

\* properties.Building: landlord
BuildingTable ==
    [b \in 1..3 |-> [landlord |-> IF b = 3 THEN None ELSE b]]

\* properties.Unit: building
UnitTable ==
    [u \in 1..4 |->
        CASE u = 1 -> [building |-> 1]
          [] u = 2 -> [building |-> 2]
          [] u = 3 -> [building |-> None]
          [] u = 4 -> [building |-> 3]]

\* leases.RentalAgreement: property, unit
RentalAgreementTable ==
    [a \in 1..15 |->
        CASE a = 1 -> [property |-> 1, unit |-> None]     \* landlord 1 (PL) by its property
          [] a = 2 -> [property |-> None, unit |-> 1]     \* landlord 1 by unit and building
          [] a = 3 -> [property |-> 1, unit |-> 1]        \* landlord 1 by both
          [] a = 4 -> [property |-> 2, unit |-> None]     \* landlord 2 (DE)
          [] a = 5 -> [property |-> 3, unit |-> None]     \* landlord 3 (pl)
          [] a = 6 -> [property |-> 4, unit |-> None]     \* landlord 4 (empty code)
          [] a = 7 -> [property |-> 2, unit |-> 1]        \* property of 2, unit of 1
          [] a = 8 -> [property |-> None, unit |-> None]  \* neither
          [] a = 9 -> [property |-> 5, unit |-> None]     \* landlord without a code
          [] a = 10 -> [property |-> 6, unit |-> None]    \* landlord whose code is no string
          [] a = 11 -> [property |-> None, unit |-> 3]    \* unit without building
          [] a = 12 -> [property |-> None, unit |-> 4]    \* building without landlord
          [] a = 13 -> [property |-> 7, unit |-> 1]       \* property without landlord, unit of 1
          [] a = 14 -> [property |-> None, unit |-> 2]    \* landlord 2 by unit and building
          [] a = 15 -> [property |-> 8, unit |-> None]]   \* landlord 7 (Pl)

\* The rental agreements a PaymentForm offers: the stored ones.
StoredAgreements == (1..8) \cup {14, 15}

(***************************************************************************)
(* dashboard/tax.py                                                        *)
(***************************************************************************)
\* per mille
LOW_RATE == 85
HIGH_RATE == 125
\* currency units
THRESHOLD_PLN == 100000
POLAND_CODE == <<"P", "L">>

\* _get_landlord_from_payment trying the unit's building before the property
_get_landlord_from_payment_unit_first(p) ==
    LET ra == p.rental_agreement IN
    IF ra = None THEN None
    ELSE
        LET prop == RentalAgreementTable[ra].property
            unit == RentalAgreementTable[ra].unit
            byProperty == IF prop # None THEN PropertyTable[prop].landlord ELSE None
            building == IF unit # None THEN UnitTable[unit].building ELSE None
            byUnit == IF building # None THEN BuildingTable[building].landlord ELSE None
        IN  IF byUnit # None THEN byUnit ELSE byProperty

_get_landlord_from_payment(p) ==
    LET ra == p.rental_agreement IN
    IF ra = None THEN None
    ELSE
        LET prop == RentalAgreementTable[ra].property
            unit == RentalAgreementTable[ra].unit
            byProperty == IF prop # None THEN PropertyTable[prop].landlord ELSE None
            building == IF unit # None THEN UnitTable[unit].building ELSE None
            byUnit == IF building # None THEN BuildingTable[building].landlord ELSE None
        IN  IF byProperty # None THEN byProperty ELSE byUnit

\* _is_polish_resident comparing the code as it is stored, without upper()
_is_polish_resident_case_sensitive(landlord) ==
    LET c == LandlordTable[landlord].tax_residency_country IN
    c.t = "str" /\ c.v = <<"P", "L">>

\* _is_polish_resident falling back to the model field's default "PL" for a missing code
_is_polish_resident_default_pl(landlord) ==
    LET c == LandlordTable[landlord].tax_residency_country IN
    IF c.t \notin {"str", "None"}
    THEN FALSE
    ELSE (IF c.t = "None" \/ c.v = <<>> THEN <<"P", "L">> ELSE
            [i \in DOMAIN c.v |->
                CASE c.v[i] = "p" -> "P" [] c.v[i] = "l" -> "L" [] OTHER -> c.v[i]])
         = <<"P", "L">>

_is_polish_resident(landlord) ==
    LET c == LandlordTable[landlord].tax_residency_country IN
    IF c.t \notin {"str", "None"}
    THEN FALSE          \* .upper() of a non-string: the exception is caught
    ELSE LET code == Upper(IF c.t = "None" \/ c.v = <<>> THEN <<>> ELSE c.v)
         IN  code = POLAND_CODE

Max(a, b) == IF a >= b THEN a ELSE b
Min(a, b) == IF a <= b THEN a ELSE b

\* What compute_tax_for_payment returns, or that it raised.
Returned(rate, amount) == [raised |-> FALSE, rate |-> rate, amount |-> amount]
Raised == [raised |-> TRUE, rate |-> <<0, 1>>, amount |-> 0]
Zero == Returned(<<0, 1>>, 0)

\* the filter with the property path only
RowOfLandlord_property_only(row, landlord) ==
    /\ row.rental_agreement # None
    /\ LET ra == RentalAgreementTable[row.rental_agreement] IN
       ra.property # None /\ PropertyTable[ra.property].landlord = landlord

\* Q(rental_agreement__property__landlord=landlord) | Q(rental_agreement__unit__building__landlord=landlord)
RowOfLandlord(row, landlord) ==
    /\ row.rental_agreement # None
    /\ LET ra == RentalAgreementTable[row.rental_agreement] IN
       \/ ra.property # None /\ PropertyTable[ra.property].landlord = landlord
       \/ /\ ra.unit # None
          /\ UnitTable[ra.unit].building # None
          /\ BuildingTable[UnitTable[ra.unit].building].landlord = landlord

\* Sum("base_rent") over the rows pks of db (0 for no row)
RECURSIVE SumBaseRent(_, _)
SumBaseRent(db, pks) ==
    IF pks = {} THEN 0
    ELSE LET k == CHOOSE x \in pks : TRUE
         IN  db[k].base_rent + SumBaseRent(db, pks \ {k})

\* _ytd_base_rent_before without the filter date_due__year
_ytd_base_rent_before_any_year(p, db) ==
    LET landlord == _get_landlord_from_payment(p)
        due == p.date_due
    IN  IF landlord = None THEN 0
        ELSE IF due = NoDate THEN 0
        ELSE LET qs == {k \in DOMAIN db :
                          RowOfLandlord(db[k], landlord) /\ DateLt(db[k].date_due, due)}
                 excl == IF p.pk # None THEN qs \ {p.pk} ELSE qs
             IN  SumBaseRent(db, excl)

\* _ytd_base_rent_before without qs.exclude(pk=p.pk)
_ytd_base_rent_before_with_self(p, db) ==
    LET landlord == _get_landlord_from_payment(p)
        due == p.date_due
    IN  IF landlord = None THEN 0
        ELSE IF due = NoDate THEN 0
        ELSE SumBaseRent(db, {k \in DOMAIN db :
                                /\ RowOfLandlord(db[k], landlord)
                                /\ db[k].date_due.year = due.year
                                /\ DateLt(db[k].date_due, due)})

_ytd_base_rent_before(p, db) ==
    LET landlord == _get_landlord_from_payment(p)
        due == p.date_due
    IN  IF landlord = None THEN 0
        ELSE IF due = NoDate THEN 0
        ELSE LET qs == {k \in DOMAIN db :
                          /\ RowOfLandlord(db[k], landlord)
                          /\ db[k].date_due.year = due.year
                          /\ DateLt(db[k].date_due, due)}
                 excl == IF p.pk # None THEN qs \ {p.pk} ELSE qs
             IN  SumBaseRent(db, excl)

\* remaining_low_band without max(0.0, ...)
remaining_low_band_unclamped(ytd_before) == THRESHOLD_PLN - ytd_before

remaining_low_band(ytd_before) == Max(0, THRESHOLD_PLN - ytd_before)
\* taxed_at_low measured from zero and not from ytd_before
taxed_at_low_ignoring_ytd(base, ytd_before) == Min(base, THRESHOLD_PLN)

taxed_at_low(base, ytd_before) == Min(base, remaining_low_band(ytd_before))
\* the part above the threshold left untaxed
taxed_at_high_none(base, ytd_before) == 0

taxed_at_high(base, ytd_before) == Max(0, base - taxed_at_low(base, ytd_before))

\* one rate for the whole payment, chosen by the band ytd_before lies in
tax_amount_unsplit(base, ytd_before) ==
    IF ytd_before < THRESHOLD_PLN THEN base * LOW_RATE ELSE base * HIGH_RATE

\* taxed_at_low * LOW_RATE + taxed_at_high * HIGH_RATE, in mills
tax_amount(base, ytd_before) ==
    taxed_at_low(base, ytd_before) * LOW_RATE + taxed_at_high(base, ytd_before) * HIGH_RATE

\* tax_amount / base
effective_rate(amount, base) == IF base # 0 THEN Rat(amount, base * Mills) ELSE <<0, 1>>

\* compute_tax_for_payment returning early for base == 0.0 only
compute_tax_for_payment_zero_only(p, db) ==
    LET landlord == _get_landlord_from_payment(p) IN
    IF landlord = None \/ ~_is_polish_resident(landlord) THEN Zero
    ELSE IF p.base_rent.t = "str" THEN Raised
    ELSE
        LET base == IF p.base_rent.t = "None" THEN 0 ELSE p.base_rent.v IN
        IF base = 0 THEN Zero
        ELSE LET ytd_before == _ytd_base_rent_before(p, db)
                 amount == tax_amount(base, ytd_before)
             IN  Returned(effective_rate(amount, base), amount)

compute_tax_for_payment(p, db) ==
    LET landlord == _get_landlord_from_payment(p) IN
    IF landlord = None \/ ~_is_polish_resident(landlord) THEN Zero
    ELSE IF p.base_rent.t = "str" THEN Raised       \* float("...") raises ValueError
    ELSE
        LET base == IF p.base_rent.t = "None" THEN 0 ELSE p.base_rent.v IN
        IF base <= 0 THEN Zero
        ELSE LET ytd_before == _ytd_base_rent_before(p, db)
                 amount == tax_amount(base, ytd_before)
             IN  Returned(effective_rate(amount, base), amount)

(***************************************************************************)
(* dashboard/models.py, dashboard/forms.py, dashboard/views.py             *)
(***************************************************************************)
\* The fields of a Payment row the views write (date_paid, status and invoice_url pass through).
PaymentRow(ra, due, base, fees, water, rate, amount, total) ==
    [rental_agreement |-> ra, date_due |-> due, base_rent |-> base,
     coop_fee |-> fees.coop_fee, electricity |-> fees.electricity,
     gas |-> fees.gas, other_fees |-> fees.other_fees,
     water |-> water, tax_rate |-> rate, tax_amount |-> amount, total_amount |-> total]

\* The object the tax engine is handed: what it reads of a Payment instance.
PaymentObject(pk, ra, due, base) ==
    [pk |-> pk, rental_agreement |-> ra, date_due |-> due, base_rent |-> base]

NoPayment == PaymentObject(None, None, NoDate, NoneValue)

Fees(coop, el, gas, other) ==
    [coop_fee |-> coop, electricity |-> el, gas |-> gas, other_fees |-> other]

\* subtotal = base_rent + coop_fee + electricity + gas + other_fees (water is not part of it)
Subtotal(base, fees) ==
    base + fees.coop_fee + fees.electricity + fees.gas + fees.other_fees

\* form_valid leaving the tax out of total_amount
FormValidRow_total_without_tax(obj, fees, db) ==
    LET res == compute_tax_for_payment(obj, db)
        base == obj.base_rent.v
    IN  PaymentRow(obj.rental_agreement, obj.date_due, base, fees, 0,
                   res.rate, res.amount, Subtotal(base, fees) * Mills)

\* form_valid of PaymentCreateView and of PaymentUpdateView, up to obj.save():
\* the row written for the object obj built from the form.
FormValidRow(obj, fees, db) ==
    LET res == compute_tax_for_payment(obj, db)
        base == obj.base_rent.v
    IN  PaymentRow(obj.rental_agreement, obj.date_due, base, fees, 0,
                   res.rate, res.amount, Subtotal(base, fees) * Mills + res.amount)

(***************************************************************************)
(* users/models.py, notifications/models.py                                *)
(***************************************************************************)
\* CustomUser.RoleChoices
TENANT == 1
LANDLORD == 2
ADMINISTRATOR == 3

\* TenantInvitation.StatusChoices
PENDING == 1
ACCEPTED == 2
DECLINED == 3
EXPIRED == 4

\* timezone.timedelta(days=7), in days
SevenDays == 7

\* A TenantInvitation row; its token is one-to-one with its id and property_unit passes
\* through.
Invitation(email, landlord, status, created_at, expires_at) ==
    [email |-> email, landlord |-> landlord, status |-> status,
     created_at |-> created_at, expires_at |-> expires_at]

\* No invitation (DoesNotExist).
NoInvitation == Invitation("", "", 0, 0, 0)

\* TenantInvitation.is_expired at time t
is_expired(invitation, t) == t > invitation.expires_at

\* The rows update_expired_invitations filters at time t: PENDING with expires_at < now
expired_invitations(inv, t) ==
    {i \in DOMAIN inv : inv[i].status = PENDING /\ inv[i].expires_at < t}

\* update_expired_invitations at time t sweeping every PENDING row, whatever its expires_at
update_expired_invitations_all_pending(inv, t) ==
    [i \in DOMAIN inv |->
        IF inv[i].status = PENDING THEN [inv[i] EXCEPT !.status = EXPIRED] ELSE inv[i]]

\* TenantInvitation.update_expired_invitations at time t: the table after the update
update_expired_invitations(inv, t) ==
    [i \in DOMAIN inv |->
        IF i \in expired_invitations(inv, t)
        THEN [inv[i] EXCEPT !.status = EXPIRED]
        ELSE inv[i]]

\* The fields a request carries: the registration form (email, password1, password2,
\* is_landlord) or, for the invitation requests, the invited email and whether the mail
\* server takes the message.
Form(email, password1, password2, is_landlord, mail_sent) ==
    [email |-> email, password1 |-> password1, password2 |-> password2,
     is_landlord |-> is_landlord, mail_sent |-> mail_sent]

NoForm == Form("", "", "", FALSE, FALSE)

\* What a request or command answered: its name, the user who sent it, the invitation it
\* named and that row as it was before, the fields it carried, the HTTP status, whether
\* messages.success was called, and the count the expiry sweep returned.
Reply(op, user, inv, before, form, status, success, count) ==
    [op |-> op, user |-> user, inv |-> inv, before |-> before, form |-> form,
     status |-> status, success |-> success, count |-> count]

NoReply == Reply("none", "", None, NoInvitation, NoForm, 0, FALSE, 0)

\* No user, no profile, no invitation, at day 0.
NoAccounts ==
    /\ users = [e \in {} |-> TENANT]
    /\ tenants = {}
    /\ landlords = {}
    /\ invitations = <<>>
    /\ nextInv = 1
    /\ now = 0
    /\ reply = NoReply

\* The requests that can be in flight at once.
Requests == {"a", "b"}

\* A request that has not entered form_valid: pc is where the request stands ("idle",
\* "computed" after compute_tax_for_payment returned, "saved" after obj.save()), obj and
\* fees are the form's values, ret the engine's result, seen the rows stored when the
\* engine ran its query, pk the key obj.save() got.
NoRequest ==
    [pc |-> "idle", obj |-> NoPayment, fees |-> Fees(0, 0, 0, 0), ret |-> Zero, seen |-> {},
     pk |-> None]

Init ==
    /\ payments = <<>>
    /\ nextPk = 1
    /\ last = [op |-> "none", pk |-> None, p |-> NoPayment, ret |-> Zero, old_due |-> NoDate,
               written |-> {}]
    /\ agreements = StoredAgreements
    /\ requests = [r \in Requests |-> NoRequest]
    /\ NoAccounts

\* PaymentCreateView.form_valid: a valid PaymentForm with these cleaned values
PaymentCreate(ra, due, base, fees) ==
    LET obj == PaymentObject(None, ra, due, Float(base))
        res == compute_tax_for_payment(obj, payments)
    IN  /\ ra = None \/ ra \in agreements
        /\ ~res.raised
        /\ payments' = (nextPk :> FormValidRow(obj, fees, payments)) @@ payments
        /\ nextPk' = nextPk + 1
        /\ last' = [op |-> "create", pk |-> nextPk, p |-> obj, ret |-> res, old_due |-> NoDate,
                    written |-> {nextPk}]
        /\ UNCHANGED <<agreements, requests, accounts>>

\* PaymentUpdateView.form_valid storing the tax on every payment of the rental agreement
PaymentUpdate_tax_to_agreement(k, ra, due, base, fees) ==
    LET obj == PaymentObject(k, ra, due, Float(base))
        res == compute_tax_for_payment(obj, payments)
    IN  /\ k \in DOMAIN payments
        /\ ra = None \/ ra \in agreements
        /\ ~res.raised
        /\ payments' = [j \in DOMAIN payments |->
                           IF j = k THEN FormValidRow(obj, fees, payments)
                           ELSE IF payments[j].rental_agreement = ra
                                THEN [payments[j] EXCEPT !.tax_rate = res.rate,
                                                         !.tax_amount = res.amount]
                                ELSE payments[j]]
        /\ last' = [op |-> "update", pk |-> k, p |-> obj, ret |-> res,
                    old_due |-> payments[k].date_due, written |-> {k}]
        /\ UNCHANGED <<nextPk, agreements, requests, accounts>>

\* PaymentUpdateView.form_valid: a valid PaymentForm bound to the stored payment k
PaymentUpdate(k, ra, due, base, fees) ==
    LET obj == PaymentObject(k, ra, due, Float(base))
        res == compute_tax_for_payment(obj, payments)
    IN  /\ k \in DOMAIN payments
        /\ ra = None \/ ra \in agreements
        /\ ~res.raised
        /\ payments' = [payments EXCEPT ![k] = FormValidRow(obj, fees, payments)]
        /\ last' = [op |-> "update", pk |-> k, p |-> obj, ret |-> res,
                    old_due |-> payments[k].date_due, written |-> {k}]
        /\ UNCHANGED <<nextPk, agreements, requests, accounts>>

\* PaymentDeleteView: the confirmed deletion of the stored payment k
PaymentDelete(k) ==
    /\ k \in DOMAIN payments
    /\ payments' = [j \in DOMAIN payments \ {k} |-> payments[j]]
    /\ last' = [op |-> "delete", pk |-> k, p |-> NoPayment, ret |-> Zero, old_due |-> NoDate,
                written |-> {}]
    /\ UNCHANGED <<nextPk, agreements, requests, accounts>>

\* RentalAgreementDeleteView with on_delete=CASCADE on Payment.rental_agreement
RentalAgreementDelete_cascade(a) ==
    /\ a \in agreements
    /\ agreements' = agreements \ {a}
    /\ payments' = [k \in {j \in DOMAIN payments : payments[j].rental_agreement # a} |->
                       payments[k]]
    /\ last' = [op |-> "delete_agreement", pk |-> None,
                p |-> PaymentObject(None, a, NoDate, NoneValue), ret |-> Zero,
                old_due |-> NoDate, written |-> {}]
    /\ UNCHANGED <<nextPk, requests, accounts>>

\* RentalAgreementDeleteView: the confirmed deletion of the stored rental agreement a;
\* Payment.rental_agreement is on_delete=SET_NULL.  last.p names the agreement.
RentalAgreementDelete(a) ==
    /\ a \in agreements
    /\ agreements' = agreements \ {a}
    /\ payments' = [k \in DOMAIN payments |->
                       IF payments[k].rental_agreement = a
                       THEN [payments[k] EXCEPT !.rental_agreement = None]
                       ELSE payments[k]]
    /\ last' = [op |-> "delete_agreement", pk |-> None,
                p |-> PaymentObject(None, a, NoDate, NoneValue), ret |-> Zero,
                old_due |-> NoDate, written |-> {}]
    /\ UNCHANGED <<nextPk, requests, accounts>>

\* A call of compute_tax_for_payment that stores its result on the payment it is handed
ComputeTax_saving(p) ==
    LET res == compute_tax_for_payment(p, payments) IN
    /\ p.pk = None \/ p.pk \in DOMAIN payments
    /\ last' = [op |-> "compute", pk |-> p.pk, p |-> p, ret |-> res, old_due |-> NoDate,
                written |-> {}]
    /\ payments' = IF p.pk \in DOMAIN payments /\ ~res.raised
                   THEN [payments EXCEPT ![p.pk].tax_rate = res.rate,
                                         ![p.pk].tax_amount = res.amount]
                   ELSE payments
    /\ UNCHANGED <<nextPk, agreements, requests, accounts>>

\* A call of compute_tax_for_payment on an object p that is not saved.
ComputeTax(p) ==
    /\ p.pk = None \/ p.pk \in DOMAIN payments
    /\ last' = [op |-> "compute", pk |-> p.pk, p |-> p,
                ret |-> compute_tax_for_payment(p, payments), old_due |-> NoDate,
                written |-> {}]
    /\ UNCHANGED <<payments, nextPk, agreements, requests, accounts>>

(***************************************************************************)
(* dashboard/views.py: PaymentCreateView.form_valid as the two steps other *)
(* requests can come between.  No transaction spans them and no row is     *)
(* locked: the query of the tax engine reads, obj.save() writes and        *)
(* commits.  PaymentCreate above is the two steps with nothing in between. *)
(***************************************************************************)
\* form_valid of request r up to obj.save(): the tax is computed on the table as it is now
CreateRead(r, ra, due, base, fees) ==
    LET obj == PaymentObject(None, ra, due, Float(base))
        res == compute_tax_for_payment(obj, payments)
    IN  /\ requests[r].pc \in {"idle", "saved"}
        /\ ra = None \/ ra \in agreements
        /\ ~res.raised
        /\ requests' = [requests EXCEPT ![r] =
                           [pc |-> "computed", obj |-> obj, fees |-> fees, ret |-> res,
                            seen |-> DOMAIN payments, pk |-> None]]
        /\ last' = [op |-> "read", pk |-> None, p |-> obj, ret |-> res, old_due |-> NoDate,
                    written |-> {}]
        /\ UNCHANGED <<payments, nextPk, agreements, accounts>>

\* obj.save() running the tax engine once more, on the table as it is at the save
CreateSave_recomputing(r) ==
    LET q == requests[r]
        base == q.obj.base_rent.v
        res == compute_tax_for_payment(q.obj, payments)
    IN  /\ q.pc = "computed"
        /\ q.obj.rental_agreement = None \/ q.obj.rental_agreement \in agreements
        /\ payments' = (nextPk :> FormValidRow(q.obj, q.fees, payments)) @@ payments
        /\ nextPk' = nextPk + 1
        /\ requests' = [requests EXCEPT ![r].pc = "saved", ![r].pk = nextPk]
        /\ last' = [op |-> "save", pk |-> nextPk, p |-> q.obj, ret |-> res,
                    old_due |-> NoDate, written |-> {nextPk}]
        /\ UNCHANGED <<agreements, accounts>>

\* obj.save() of request r: the row is stored with the tax computed before
CreateSave(r) ==
    LET q == requests[r]
        base == q.obj.base_rent.v
    IN  /\ q.pc = "computed"
        /\ q.obj.rental_agreement = None \/ q.obj.rental_agreement \in agreements
        /\ payments' = (nextPk :> PaymentRow(q.obj.rental_agreement, q.obj.date_due, base,
                                             q.fees, 0, q.ret.rate, q.ret.amount,
                                             Subtotal(base, q.fees) * Mills + q.ret.amount))
                       @@ payments
        /\ nextPk' = nextPk + 1
        /\ requests' = [requests EXCEPT ![r].pc = "saved", ![r].pk = nextPk]
        /\ last' = [op |-> "save", pk |-> nextPk, p |-> q.obj, ret |-> q.ret,
                    old_due |-> NoDate, written |-> {nextPk}]
        /\ UNCHANGED <<agreements, accounts>>

(***************************************************************************)
(* dashboard/management/commands/generate_payments.py                      *)
(***************************************************************************)
\* leases.RentalAgreement: the term and the monthly amounts of each row
AgreementTerms ==
    [a \in DOMAIN RentalAgreementTable |->
        CASE a = 1 -> [start_date |-> NoDate, end_date |-> NoDate,
                       base_rent |-> 60000, fees |-> Fees(100, 20, 3, 4000)]
          [] a = 2 -> [start_date |-> Date(2024, 2, 15), end_date |-> NoDate,
                       base_rent |-> 50000, fees |-> Fees(0, 0, 0, 0)]
          [] a = 4 -> [start_date |-> Date(2023, 6, 1), end_date |-> Date(2024, 1, 20),
                       base_rent |-> 150000, fees |-> Fees(0, 30, 0, 0)]
          [] OTHER -> [start_date |-> NoDate, end_date |-> NoDate,
                       base_rent |-> 1000, fees |-> Fees(0, 0, 0, 0)]]

\* calendar.monthrange(year, month)[1]: the number of days of the month
monthrange(year, month) ==
    IF month = 2
    THEN (IF year % 4 = 0 /\ (year % 100 # 0 \/ year % 400 = 0) THEN 29 ELSE 28)
    ELSE IF month \in {4, 6, 9, 11} THEN 30 ELSE 31

\* defaults of handle: the amounts of rental agreement ra, total_amount without any tax
Defaults(ra) ==
    LET t == AgreementTerms[ra] IN
    [base_rent |-> t.base_rent, coop_fee |-> t.fees.coop_fee,
     electricity |-> t.fees.electricity, water |-> 0, gas |-> t.fees.gas,
     other_fees |-> t.fees.other_fees,
     total_amount |-> Subtotal(t.base_rent, t.fees) * Mills]

\* The row Payment.objects.create makes of the lookup and the defaults: tax_rate and
\* tax_amount take the model's default 0.0.
CreatedRow(ra, due_date) ==
    LET d == Defaults(ra) IN
    PaymentRow(ra, due_date, d.base_rent, AgreementTerms[ra].fees, d.water,
               <<0, 1>>, 0, d.total_amount)

\* The row update_or_create saves for a stored row: the defaults are assigned, every other
\* field stays.
OverwrittenRow(row, ra) ==
    LET d == Defaults(ra) IN
    [row EXCEPT !.base_rent = d.base_rent, !.coop_fee = d.coop_fee,
                !.electricity = d.electricity, !.water = d.water, !.gas = d.gas,
                !.other_fees = d.other_fees, !.total_amount = d.total_amount]

\* ra is not skipped by the loop: start_date is not after the month and end_date is not
\* before it
ActiveIn(ra, first_day, last_day) ==
    LET t == AgreementTerms[ra] IN
    /\ ~(t.start_date # NoDate /\ DateLt(last_day, t.start_date))
    /\ ~(t.end_date # NoDate /\ DateLt(t.end_date, first_day))

\* The loop of handle over the rental agreements todo, taken in pk order, from the state st
\* = [db, pk, written, created, updated, raised]: the table, the next primary key, the
\* rows written, the two counters, and whether a lookup raised MultipleObjectsReturned.
RECURSIVE GenerateLoop(_, _, _, _, _, _)
GenerateLoop(todo, st, first_day, last_day, due_date, overwrite) ==
    IF todo = {} \/ st.raised THEN st
    ELSE
        LET ra == CHOOSE a \in todo : \A b \in todo : a <= b
            rest == todo \ {ra}
            match == {k \in DOMAIN st.db :
                         st.db[k].rental_agreement = ra /\ st.db[k].date_due = due_date}
            next ==
                IF ~ActiveIn(ra, first_day, last_day) THEN st
                ELSE IF Cardinality(match) > 1 THEN [st EXCEPT !.raised = TRUE]
                ELSE IF match = {}
                THEN [st EXCEPT !.db = (st.pk :> CreatedRow(ra, due_date)) @@ st.db,
                                !.pk = st.pk + 1,
                                !.written = st.written \cup {st.pk},
                                !.created = st.created + 1]
                ELSE IF overwrite
                THEN LET k == CHOOSE j \in match : TRUE IN
                     [st EXCEPT !.db = [st.db EXCEPT ![k] = OverwrittenRow(st.db[k], ra)],
                                !.written = st.written \cup {k},
                                !.updated = st.updated + 1]
                ELSE st
        IN  GenerateLoop(rest, next, first_day, last_day, due_date, overwrite)

\* The object last.p of a run of the command: it carries the due date of the run.
RunOf(due_date) == PaymentObject(None, None, due_date, NoneValue)

\* The name last.op gives a run of the command: with or without --overwrite.
GenOp(overwrite) == IF overwrite THEN "generate --overwrite" ELSE "generate"

\* Command.handle: manage.py generate_payments year month [--due-day due_day] [--overwrite],
\* one transaction
GeneratePayments(year, month, due_day, overwrite) ==
    IF month \notin 1..12
    THEN \* monthrange raises IllegalMonthError
         /\ last' = [op |-> GenOp(overwrite), pk |-> None, p |-> NoPayment, ret |-> Raised,
                     old_due |-> NoDate, written |-> {}]
         /\ UNCHANGED <<payments, nextPk, agreements, requests, accounts>>
    ELSE
        LET day == Max(1, Min(due_day, monthrange(year, month)))
            first_day == Date(year, month, 1)
            last_day == Date(year, month, monthrange(year, month))
            due_date == Date(year, month, day)
            st == GenerateLoop(agreements,
                               [db |-> payments, pk |-> nextPk, written |-> {},
                                created |-> 0, updated |-> 0, raised |-> FALSE],
                               first_day, last_day, due_date, overwrite)
        IN  IF st.raised
            THEN \* the exception leaves handle and the transaction is rolled back
                 /\ last' = [op |-> GenOp(overwrite), pk |-> None, p |-> RunOf(due_date),
                             ret |-> Raised, old_due |-> NoDate, written |-> {}]
                 /\ UNCHANGED <<payments, nextPk, agreements, requests, accounts>>
            ELSE /\ payments' = st.db
                 /\ nextPk' = st.pk
                 /\ last' = [op |-> GenOp(overwrite), pk |-> None, p |-> RunOf(due_date),
                             ret |-> Zero, old_due |-> NoDate, written |-> st.written]
                 /\ UNCHANGED <<agreements, requests, accounts>>

\* The object the tax engine is handed for the stored payment k.
StoredObject(k) ==
    PaymentObject(k, payments[k].rental_agreement, payments[k].date_due,
                  Float(payments[k].base_rent))

(***************************************************************************)
(* users/views.py                                                          *)
(***************************************************************************)
\* CustomUserCreationForm.is_valid: the email is not a stored user's (unique=True) and
\* password2 repeats password1 (UserCreationForm.clean_password2)
RegistrationValid(form) ==
    /\ form.email \notin DOMAIN users
    /\ form.password1 = form.password2

\* RegisterView.form_valid storing a Tenant profile for every new user
Register_tenant_profile(form) ==
    /\ IF RegistrationValid(form)
       THEN LET role == IF form.is_landlord THEN LANDLORD ELSE TENANT IN
            /\ users' = (form.email :> role) @@ users
            /\ tenants' = tenants \cup {form.email}
            /\ landlords' = landlords
            /\ reply' = Reply("register", form.email, None, NoInvitation, form, 302, TRUE, 0)
       ELSE /\ reply' = Reply("register", form.email, None, NoInvitation, form, 200, FALSE, 0)
            /\ UNCHANGED <<users, tenants, landlords>>
    /\ UNCHANGED <<invitations, nextInv, now, ledger>>

\* RegisterView: POST of the registration form.  A valid form stores the user with the
\* role and one profile of that role and redirects; an invalid one renders the form again.
Register(form) ==
    /\ IF RegistrationValid(form)
       THEN LET role == IF form.is_landlord THEN LANDLORD ELSE TENANT IN
            /\ users' = (form.email :> role) @@ users
            /\ IF role = LANDLORD
               THEN landlords' = landlords \cup {form.email} /\ tenants' = tenants
               ELSE tenants' = tenants \cup {form.email} /\ landlords' = landlords
            /\ reply' = Reply("register", form.email, None, NoInvitation, form, 302, TRUE, 0)
       ELSE /\ reply' = Reply("register", form.email, None, NoInvitation, form, 200, FALSE, 0)
            /\ UNCHANGED <<users, tenants, landlords>>
    /\ UNCHANGED <<invitations, nextInv, now, ledger>>

(***************************************************************************)
(* notifications/views/invitations.py, notifications/views/mixins.py       *)
(***************************************************************************)
\* LandlordRequiredMixin.test_func for the requesting user u ("" is the anonymous user)
test_func(u) == u \in DOMAIN users /\ users[u] = LANDLORD

\* dispatch refusing the request: LoginRequiredMixin redirects the anonymous user to the
\* login page, UserPassesTestMixin answers 403 to a user who is no landlord
Refused(op, u, id) ==
    /\ reply' = Reply(op, u, id, NoInvitation, NoForm,
                      IF u \in DOMAIN users THEN 403 ELSE 302, FALSE, 0)
    /\ UNCHANGED <<users, tenants, landlords, invitations, nextInv, now, ledger>>

\* The row with the id, or NoInvitation
RowOf(inv, id) == IF id \in DOMAIN inv THEN inv[id] ELSE NoInvitation

\* SendInvitationView.form_valid: the landlord u invites email; the row is saved before the
\* mail is sent, and send_mail raises (500) when the mail server refuses
SendInvitation(u, email, mail_sent) ==
    IF ~test_func(u) THEN Refused("send", u, None)
    ELSE /\ landlords' = landlords \cup {u}
         /\ invitations' =
                (nextInv :> Invitation(email, u, PENDING, now, now + SevenDays)) @@ invitations
         /\ nextInv' = nextInv + 1
         /\ reply' = Reply("send", u, nextInv, NoInvitation,
                           Form(email, "", "", FALSE, mail_sent),
                           IF mail_sent THEN 302 ELSE 500, mail_sent, 0)
         /\ UNCHANGED <<users, tenants, now, ledger>>

\* SendInvitationView.post with ?resend=id, sent by user u: an EXPIRED invitation of the
\* landlord is reset to PENDING with a new expires_at, created_at is set to now, the mail is
\* sent again
ResendInvitation(u, id, mail_sent) ==
    IF ~test_func(u) THEN Refused("resend", u, id)
    ELSE /\ landlords' = landlords \cup {u}
         /\ IF /\ id \in DOMAIN invitations
               /\ invitations[id].landlord = u
               /\ invitations[id].status \in {PENDING, EXPIRED}
            THEN LET row == invitations[id]
                     reset == IF row.status = EXPIRED
                              THEN [row EXCEPT !.status = PENDING,
                                               !.expires_at = now + SevenDays]
                              ELSE row
                 IN  /\ invitations' =
                            [invitations EXCEPT ![id] = [reset EXCEPT !.created_at = now]]
                     /\ reply' = Reply("resend", u, id, row,
                                       Form(row.email, "", "", FALSE, mail_sent),
                                       IF mail_sent THEN 302 ELSE 500, mail_sent, 0)
            ELSE /\ reply' = Reply("resend", u, id, RowOf(invitations, id), NoForm,
                                   302, FALSE, 0)
                 /\ UNCHANGED invitations
         /\ UNCHANGED <<users, tenants, nextInv, now, ledger>>

\* The cancel branch of post looking the invitation up by id and status only
CancelInvitation_any_landlord(u, id) ==
    IF ~test_func(u) THEN Refused("cancel", u, id)
    ELSE /\ landlords' = landlords \cup {u}
         /\ IF /\ id \in DOMAIN invitations
               /\ invitations[id].status \in {PENDING, EXPIRED, ACCEPTED}
            THEN /\ invitations' = [k \in DOMAIN invitations \ {id} |-> invitations[k]]
                 /\ reply' = Reply("cancel", u, id, invitations[id], NoForm, 302, TRUE, 0)
            ELSE /\ reply' = Reply("cancel", u, id, RowOf(invitations, id), NoForm,
                                   302, FALSE, 0)
                 /\ UNCHANGED invitations
         /\ UNCHANGED <<users, tenants, nextInv, now, ledger>>

\* SendInvitationView.post with cancel_invitation=id, sent by user u
CancelInvitation(u, id) ==
    IF ~test_func(u) THEN Refused("cancel", u, id)
    ELSE /\ landlords' = landlords \cup {u}
         /\ IF /\ id \in DOMAIN invitations
               /\ invitations[id].landlord = u
               /\ invitations[id].status \in {PENDING, EXPIRED, ACCEPTED}
            THEN /\ invitations' = [k \in DOMAIN invitations \ {id} |-> invitations[k]]
                 /\ reply' = Reply("cancel", u, id, invitations[id], NoForm, 302, TRUE, 0)
            ELSE /\ reply' = Reply("cancel", u, id, RowOf(invitations, id), NoForm,
                                   302, FALSE, 0)
                 /\ UNCHANGED invitations
         /\ UNCHANGED <<users, tenants, nextInv, now, ledger>>

\* TenantInvitationListView.get_queryset, requested by user u: the expiry sweep, then the
\* landlord's list
InvitationList(u) ==
    IF ~test_func(u) THEN Refused("list", u, None)
    ELSE /\ landlords' = landlords \cup {u}
         /\ invitations' = update_expired_invitations(invitations, now)
         /\ reply' = Reply("list", u, None, NoInvitation, NoForm, 200, FALSE,
                           Cardinality(expired_invitations(invitations, now)))
         /\ UNCHANGED <<users, tenants, nextInv, now, ledger>>

\* manage.py update_expired_invitations
UpdateExpiredCommand ==
    /\ invitations' = update_expired_invitations(invitations, now)
    /\ reply' = Reply("update_expired_invitations", "", None, NoInvitation, NoForm, 0, TRUE,
                      Cardinality(expired_invitations(invitations, now)))
    /\ UNCHANGED <<users, tenants, landlords, nextInv, now, ledger>>

\* AcceptInvitationView.get for the token of invitation id: the sweep at time now, the
\* lookup of the PENDING row, is_expired read dt later.  The sweep is committed whatever
\* the answer is.
AcceptGet(id, dt) ==
    LET swept == update_expired_invitations(invitations, now)
        t == now + dt
        count == Cardinality(expired_invitations(invitations, now))
        before == RowOf(invitations, id)
        status == IF id \notin DOMAIN swept \/ swept[id].status # PENDING THEN 404
                  ELSE IF is_expired(swept[id], t) THEN 302
                  ELSE 200
    IN  /\ invitations' = swept
        /\ now' = t
        /\ reply' = Reply("accept GET", "", id, before, NoForm, status, FALSE, count)
        /\ UNCHANGED <<users, tenants, landlords, nextInv, ledger>>

\* AcceptInvitationView.post that skips the is_expired test
AcceptPost_unchecked(id, dt) ==
    LET swept == update_expired_invitations(invitations, now)
        t == now + dt
        count == Cardinality(expired_invitations(invitations, now))
        before == RowOf(invitations, id)
    IN  /\ now' = t
        /\ IF id \notin DOMAIN swept \/ swept[id].status # PENDING
           THEN /\ invitations' = swept
                /\ reply' = Reply("accept POST", "", id, before, NoForm, 404, FALSE, count)
                /\ UNCHANGED <<users, tenants>>
           ELSE LET email == swept[id].email IN
                /\ users' = IF email \in DOMAIN users
                            THEN [users EXCEPT ![email] = TENANT]
                            ELSE (email :> TENANT) @@ users
                /\ tenants' = tenants \cup {email}
                /\ invitations' = [swept EXCEPT ![id].status = ACCEPTED]
                /\ reply' = Reply("accept POST", "", id, before, NoForm, 302, TRUE, count)
        /\ UNCHANGED <<landlords, nextInv, ledger>>

\* AcceptInvitationView.post for the token of invitation id: the sweep at time now, the
\* lookup of the PENDING row, is_expired read dt later; then the user with the invited
\* email is made a TENANT (created by create_user if there is none), gets a Tenant profile
\* if he has none, and the invitation is saved as ACCEPTED.
AcceptPost(id, dt) ==
    LET swept == update_expired_invitations(invitations, now)
        t == now + dt
        count == Cardinality(expired_invitations(invitations, now))
        before == RowOf(invitations, id)
    IN  /\ now' = t
        /\ IF id \notin DOMAIN swept \/ swept[id].status # PENDING
           THEN /\ invitations' = swept
                /\ reply' = Reply("accept POST", "", id, before, NoForm, 404, FALSE, count)
                /\ UNCHANGED <<users, tenants>>
           ELSE IF is_expired(swept[id], t)
           THEN /\ invitations' = swept
                /\ reply' = Reply("accept POST", "", id, before, NoForm, 302, FALSE, count)
                /\ UNCHANGED <<users, tenants>>
           ELSE LET email == swept[id].email IN
                /\ users' = IF email \in DOMAIN users
                            THEN [users EXCEPT ![email] = TENANT]
                            ELSE (email :> TENANT) @@ users
                /\ tenants' = tenants \cup {email}
                /\ invitations' = [swept EXCEPT ![id].status = ACCEPTED]
                /\ reply' = Reply("accept POST", "", id, before, NoForm, 302, TRUE, count)
        /\ UNCHANGED <<landlords, nextInv, ledger>>

\* Time passes; no request is being answered.
Tick ==
    /\ now' = now + 1
    /\ reply' = NoReply
    /\ UNCHANGED <<users, tenants, landlords, invitations, nextInv, ledger>>

(***************************************************************************)
(* Bounds and inputs                                                       *)
(***************************************************************************)
D2023Dec == Date(2023, 12, 1)
D2024Jan == Date(2024, 1, 1)
D2024Feb == Date(2024, 2, 1)
D2024Mar == Date(2024, 3, 1)

NoFees == Fees(0, 0, 0, 0)
SomeFees == Fees(100, 20, 3, 4000)

(***************************************************************************)
(* Spec: the payment views on the payments of a PL landlord (agreement 1)  *)
(* and of a DE landlord (agreement 4), due in two years.                   *)
(***************************************************************************)
\* payments ever created
MaxPk == 2

\* What the forms submit: rental agreement and base_rent, date_due, the fees.
FormPayments == {<<1, 95000>>, <<1, 150000>>, <<4, 150000>>}
FormDates == {D2023Dec, D2024Jan, D2024Feb}
FormFees == {SomeFees}

\* The objects compute_tax_for_payment is called on directly.
ComputeObjects ==
    {PaymentObject(None, 1, D2024Feb, base) :
        base \in {Float(1000), Float(5000), Float(10000)}}

Next ==
    \/ \E f \in FormPayments, due \in FormDates, fees \in FormFees :
          nextPk <= MaxPk /\ PaymentCreate(f[1], due, f[2], fees)
    \/ \E k \in 1..MaxPk, f \in FormPayments, due \in FormDates, fees \in FormFees :
          PaymentUpdate(k, f[1], due, f[2], fees)
    \/ \E k \in 1..MaxPk : PaymentDelete(k)
    \/ \E p \in ComputeObjects : ComputeTax(p)

Spec == Init /\ [][Next]_vars

(***************************************************************************)
(* SpecTax: compute_tax_for_payment on every kind of object, well formed   *)
(* or not, over a small table of stored payments.                          *)
(***************************************************************************)
\* payments ever created under SpecTax
MaxPkTax == 2

TaxFormAgreements == {1, 4, 5}
TaxFormDates == {D2024Jan}
TaxFormBases == {95000}

TaxObjects ==
    {PaymentObject(None, ra, due, base) :
        ra \in {None} \cup DOMAIN RentalAgreementTable,
        due \in {NoDate, D2024Feb},
        base \in {NoneValue, TextValue, Float(0 - 1000), Float(0), Float(10000)}}

NextTax ==
    \/ \E ra \in TaxFormAgreements, due \in TaxFormDates, base \in TaxFormBases :
          nextPk <= MaxPkTax /\ PaymentCreate(ra, due, base, NoFees)
    \/ \E k \in 1..MaxPkTax, ra \in TaxFormAgreements, due \in TaxFormDates,
          base \in TaxFormBases :
          PaymentUpdate(k, ra, due, base, NoFees)
    \/ \E k \in 1..MaxPkTax : PaymentDelete(k)
    \/ \E p \in TaxObjects : ComputeTax(p)

SpecTax == Init /\ [][NextTax]_vars

(***************************************************************************)
(* SpecYear: the payments of one PL landlord (agreement 1) over the first  *)
(* months of one year, created one after the other and never edited or     *)
(* deleted.                                                                *)
(***************************************************************************)
\* payments ever created under SpecYear
MaxPkYear == 3

YearFormDates == {D2024Jan, D2024Feb, D2024Mar}
YearFormBases == {30000, 40000}

NextYear ==
    \E due \in YearFormDates, base \in YearFormBases :
        nextPk <= MaxPkYear /\ PaymentCreate(1, due, base, NoFees)

SpecYear == Init /\ [][NextYear]_vars

(***************************************************************************)
(* SpecGen: the generate_payments command over three rental agreements     *)
(* (1: PL landlord, open term; 2: PL landlord by unit, from 15 Feb 2024;   *)
(* 4: DE landlord, until 20 Jan 2024), next to payments created by form,   *)
(* deletions, and the tax engine called on stored payments.                *)
(***************************************************************************)
\* payments ever created under SpecGen
MaxPkGen == 4

GenAgreements == {1, 2, 4}
\* year and month of a run; month 13 is refused by monthrange
GenMonths == {<<2024, 1>>, <<2024, 2>>, <<2024, 13>>}
\* --due-day: the default, and a day past the end of February
GenDueDays == {5, 31}
GenFormDates == {Date(2024, 1, 5), Date(2024, 2, 5)}

InitGen ==
    /\ payments = <<>>
    /\ nextPk = 1
    /\ last = [op |-> "none", pk |-> None, p |-> NoPayment, ret |-> Zero, old_due |-> NoDate,
               written |-> {}]
    /\ agreements = GenAgreements
    /\ requests = [r \in Requests |-> NoRequest]
    /\ NoAccounts

NextGen ==
    \/ \E ym \in GenMonths, due_day \in GenDueDays, overwrite \in BOOLEAN :
          GeneratePayments(ym[1], ym[2], due_day, overwrite) /\ nextPk' <= MaxPkGen + 1
    \/ \E due \in GenFormDates :
          nextPk <= MaxPkGen /\ PaymentCreate(1, due, 95000, NoFees)
    \/ \E k \in DOMAIN payments : PaymentDelete(k)
    \/ \E k \in DOMAIN payments : ComputeTax(StoredObject(k))

SpecGen == InitGen /\ [][NextGen]_vars

(***************************************************************************)
(* SpecPaths: payments of the PL landlord 1 stored under rental agreements *)
(* that lead to him by the property (1), by the unit's building (2), by    *)
(* both (3), by the unit while the property is another landlord's (7), and *)
(* under an agreement of landlord 2 only (14).                             *)
(***************************************************************************)
\* payments ever created under SpecPaths
MaxPkPaths == 3

PathFormAgreements == {1, 2, 3, 7, 14}
PathFormDates == {D2024Jan}
PathFormBases == {30000, 50000}

PathObjects ==
    {PaymentObject(None, ra, D2024Feb, Float(40000)) : ra \in {1, 2}}

NextPaths ==
    \/ \E ra \in PathFormAgreements, due \in PathFormDates, base \in PathFormBases :
          nextPk <= MaxPkPaths /\ PaymentCreate(ra, due, base, NoFees)
    \/ \E k \in DOMAIN payments : PaymentDelete(k)
    \/ \E p \in PathObjects : ComputeTax(p)

SpecPaths == Init /\ [][NextPaths]_vars

(***************************************************************************)
(* SpecConc: two create requests at a time for payments of the PL landlord *)
(* (agreement 1) due in January and February 2024, their reads and saves   *)
(* in any order.                                                           *)
(***************************************************************************)
\* payments ever created under SpecConc
MaxPkConc == 3

ConcFormDates == {D2024Jan, D2024Feb}
ConcFormBases == {20000, 95000}

\* the requests that have computed and not yet saved
Computed == {r \in Requests : requests[r].pc = "computed"}

NextConc ==
    \/ \E r \in Requests, due \in ConcFormDates, base \in ConcFormBases :
          /\ nextPk + Cardinality(Computed) <= MaxPkConc
          /\ CreateRead(r, 1, due, base, NoFees)
    \/ \E r \in Requests : CreateSave(r)

SpecConc == Init /\ [][NextConc]_vars

(***************************************************************************)
(* SpecLease: payments of two rental agreements of the PL landlord (1 by   *)
(* the property, 3 by property and unit) and of none, the deletion of the  *)
(* agreements, and the tax engine called on stored payments.               *)
(***************************************************************************)
\* payments ever created under SpecLease
MaxPkLease == 3

LeaseAgreements == {1, 3}
LeaseFormAgreements == {None, 1, 3}
LeaseFormDates == {D2024Jan, D2024Feb}
LeaseFormBases == {95000}

InitLease ==
    /\ payments = <<>>
    /\ nextPk = 1
    /\ last = [op |-> "none", pk |-> None, p |-> NoPayment, ret |-> Zero, old_due |-> NoDate,
               written |-> {}]
    /\ agreements = LeaseAgreements
    /\ requests = [r \in Requests |-> NoRequest]
    /\ NoAccounts

NextLease ==
    \/ \E ra \in LeaseFormAgreements, due \in LeaseFormDates, base \in LeaseFormBases :
          nextPk <= MaxPkLease /\ PaymentCreate(ra, due, base, SomeFees)
    \/ \E k \in DOMAIN payments : PaymentDelete(k)
    \/ \E a \in LeaseAgreements : RentalAgreementDelete(a)
    \/ \E k \in DOMAIN payments : ComputeTax(StoredObject(k))

SpecLease == InitLease /\ [][NextLease]_vars

(***************************************************************************)
(* SpecOrder: payments of the PL landlord (agreement 1) in 2024 entered    *)
(* through the create form only, with the amounts the form accepts, a      *)
(* negative base_rent included (forms.FloatField without min_value).       *)
(***************************************************************************)
\* payments ever created under SpecOrder
MaxPkOrder == 3

OrderFormDates == {D2024Jan, D2024Feb, D2024Mar}
OrderFormBases == {100000, 0 - 50000, 50000}

NextOrder ==
    \E due \in OrderFormDates, base \in OrderFormBases :
        nextPk <= MaxPkOrder /\ PaymentCreate(1, due, base, NoFees)

SpecOrder == Init /\ [][NextOrder]_vars

(***************************************************************************)
(* SpecRegister: registrations only, with matching and mismatching         *)
(* passwords, with and without the landlord option, for new and for        *)
(* registered emails.                                                      *)
(***************************************************************************)
\* email addresses in use under SpecRegister
MaxEmails == 3

EmailTable == <<"ann@x.pl", "bob@x.pl", "cat@x.pl", "dan@x.pl", "eve@x.pl">>
Emails == {EmailTable[i] : i \in 1..MaxEmails}
Passwords == {"pw1", "pw2"}

RegisterForms ==
    {Form(e, p1, p2, l, FALSE) :
        e \in Emails, p1 \in {"pw1"}, p2 \in Passwords, l \in BOOLEAN}

NextRegister == \E form \in RegisterForms : Register(form)

SpecRegister == Init /\ [][NextRegister]_vars

(***************************************************************************)
(* SpecInvite: two registered landlords, an invitation that was declined   *)
(* (stored by the seed command, dashboard/management/commands/t.py), and   *)
(* the invitation requests, the acceptance requests, the expiry command    *)
(* and the clock.                                                          *)
(***************************************************************************)
\* invitations ever stored under SpecInvite
MaxInv == 2
\* the last instant of the clock under SpecInvite
MaxNow == 9

Ann == "ann@x.pl"
Bob == "bob@x.pl"
Cat == "cat@x.pl"

Requesters == {Ann, Bob, Cat}
InviteEmails == {Cat, Bob}
InvitationIds == 1..MaxInv
ClockSteps == {0, 1}

InitInvite ==
    /\ payments = <<>>
    /\ nextPk = 1
    /\ last = [op |-> "none", pk |-> None, p |-> NoPayment, ret |-> Zero, old_due |-> NoDate,
               written |-> {}]
    /\ agreements = StoredAgreements
    /\ requests = [r \in Requests |-> NoRequest]
    /\ users = (Ann :> LANDLORD) @@ (Bob :> LANDLORD)
    /\ tenants = {}
    /\ landlords = {Ann, Bob}
    /\ invitations = (1 :> Invitation(Cat, Ann, DECLINED, 0, SevenDays))
    /\ nextInv = 2
    /\ now = 0
    /\ reply = NoReply

NextInvite ==
    \/ \E u \in Requesters, email \in InviteEmails, mail_sent \in BOOLEAN :
          nextInv <= MaxInv /\ SendInvitation(u, email, mail_sent)
    \/ \E u \in Requesters, id \in InvitationIds, mail_sent \in BOOLEAN :
          ResendInvitation(u, id, mail_sent)
    \/ \E u \in Requesters, id \in InvitationIds : CancelInvitation(u, id)
    \/ \E u \in Requesters : InvitationList(u)
    \/ UpdateExpiredCommand
    \/ \E id \in InvitationIds, dt \in ClockSteps : now + dt <= MaxNow /\ AcceptGet(id, dt)
    \/ \E id \in InvitationIds, dt \in ClockSteps : now + dt <= MaxNow /\ AcceptPost(id, dt)
    \/ now < MaxNow /\ Tick

SpecInvite == InitInvite /\ [][NextInvite]_vars

(***************************************************************************)
(* The claims' vocabulary, stated from the tables and not through the tax  *)
(* engine's helpers.                                                       *)
(***************************************************************************)
\* The last operation called the tax engine.
Taxed == last.op \in {"compute", "create", "update"}

\* The payment the last operation worked on, under the primary key it is stored with.
LastObject == [last.p EXCEPT !.pk = last.pk]

OwnerByProperty(ra) ==
    IF ra # None /\ RentalAgreementTable[ra].property # None
    THEN PropertyTable[RentalAgreementTable[ra].property].landlord
    ELSE None

OwnerByUnit(ra) ==
    IF ra # None /\ RentalAgreementTable[ra].unit # None
            /\ UnitTable[RentalAgreementTable[ra].unit].building # None
    THEN BuildingTable[UnitTable[RentalAgreementTable[ra].unit].building].landlord
    ELSE None

\* The landlord a payment of rental agreement ra belongs to: by the property, else by the unit.
Owner(ra) == IF OwnerByProperty(ra) # None THEN OwnerByProperty(ra) ELSE OwnerByUnit(ra)

\* The landlord's country code is "PL" in some letter case.
IsPL(landlord) ==
    /\ landlord # None
    /\ LandlordTable[landlord].tax_residency_country.t = "str"
    /\ LandlordTable[landlord].tax_residency_country.v
          \in {<<"P", "L">>, <<"p", "l">>, <<"P", "l">>, <<"p", "L">>}

\* The base_rent of the last payment is a number above zero.
PositiveBase == last.p.base_rent.t = "float" /\ last.p.base_rent.v > 0

\* Date a is an earlier day than date b.
Before(a, b) ==
    a.year * 10000 + a.month * 100 + a.day < b.year * 10000 + b.month * 100 + b.day

\* The rows of table db that belong to a landlord, other than payment self, due in the
\* year of date due and before it.
EarlierInYearOf(db, landlord, due, self) ==
    {k \in DOMAIN db \ {self} :
        /\ landlord \in {OwnerByProperty(db[k].rental_agreement),
                         OwnerByUnit(db[k].rental_agreement)} \ {None}
        /\ db[k].date_due.year = due.year
        /\ Before(db[k].date_due, due)}

EarlierInYear(landlord, due, self) == EarlierInYearOf(payments, landlord, due, self)

\* The tax (mills) on base after ytd of the year: 8.5% up to 100000, 12.5% above.
ExpectedTax(base, ytd) ==
    LET room == IF 100000 - ytd > 0 THEN 100000 - ytd ELSE 0
        low == IF base < room THEN base ELSE room
    IN  low * 85 + (base - low) * 125

\* Table db without the rows pks.
WithoutRows(db, pks) == [k \in DOMAIN db \ pks |-> db[k]]

\* ytd_before of the last payment, on the table as it is now
YtdBefore ==
    SumBaseRent(payments,
                EarlierInYear(Owner(last.p.rental_agreement), last.p.date_due, last.pk))

\* r is the fraction n / d
RateIs(r, n, d) == r[2] > 0 /\ r[1] * d = r[2] * n

\* r is amount (mills) / base (units)
RateOf(r, amount, base) ==
    /\ r[2] > 0
    /\ LET g == (base * Mills) \div r[2] IN amount = r[1] * g /\ base * Mills = r[2] * g

\* C1: for a payment of a PL landlord with base_rent > 0 the engine returns
\* tax_amount = taxed_at_low * 0.085 + taxed_at_high * 0.125 and effective_rate =
\* tax_amount / base_rent, where taxed_at_low = min(base_rent, max(0, 100000 - ytd_before)),
\* taxed_at_high = base_rent - taxed_at_low and ytd_before sums the base_rent of the
\* landlord's other payments of the same year with an earlier date_due.
C1_TaxFormula ==
    (Taxed /\ IsPL(Owner(last.p.rental_agreement)) /\ PositiveBase) =>
        LET base == last.p.base_rent.v
            room == IF 100000 - YtdBefore > 0 THEN 100000 - YtdBefore ELSE 0
            low == IF base < room THEN base ELSE room
            high == base - low
        IN  /\ ~last.ret.raised
            /\ last.ret.amount = low * 85 + high * 125
            /\ RateOf(last.ret.rate, last.ret.amount, base)

\* A payment of a PL landlord was created after earlier payments of the year, and both
\* bands are taxed.
C1_Witness ==
    /\ last.op = "create"
    /\ IsPL(Owner(last.p.rental_agreement))
    /\ YtdBefore = 95000
    /\ last.p.base_rent.v = 150000
    /\ last.ret.amount = 5000 * 85 + 145000 * 125

\* C4: for a PL landlord and base_rent > 0, ytd_before + base_rent <= 100000 gives the rate
\* 0.085 and tax_amount = base_rent * 0.085 (no earlier payment, base 1000: 85), and
\* ytd_before >= 100000 gives the rate 0.125 and tax_amount = base_rent * 0.125
\* (ytd 150000, base 5000: 625).
C4_SingleBand ==
    (Taxed /\ IsPL(Owner(last.p.rental_agreement)) /\ PositiveBase) =>
        LET base == last.p.base_rent.v IN
        /\ YtdBefore + base <= 100000 =>
              RateIs(last.ret.rate, 85, 1000) /\ last.ret.amount = base * 85
        /\ YtdBefore >= 100000 =>
              RateIs(last.ret.rate, 125, 1000) /\ last.ret.amount = base * 125
        /\ (YtdBefore = 0 /\ base = 1000) => last.ret.amount = 85 * Mills
        /\ (YtdBefore = 150000 /\ base = 5000) => last.ret.amount = 625 * Mills

\* The engine taxed a base of 5000 after 150000 of the year: 625 at the rate 1/8.
C4_Witness ==
    /\ last.op = "compute"
    /\ IsPL(Owner(last.p.rental_agreement))
    /\ YtdBefore = 150000
    /\ last.p.base_rent = Float(5000)
    /\ last.ret = Returned(<<1, 8>>, 625 * Mills)

\* C5: a payment of a PL landlord that straddles the threshold (ytd_before < 100000 <
\* ytd_before + base_rent) is taxed at 0.085 up to the threshold and at 0.125 above it in
\* the same call; ytd 95000 and base 10000 give 5000 in each band, 1050 of tax and the
\* rate 0.105.
C5_Straddle ==
    (Taxed /\ IsPL(Owner(last.p.rental_agreement)) /\ PositiveBase) =>
        LET base == last.p.base_rent.v IN
        /\ (YtdBefore < 100000 /\ 100000 < YtdBefore + base) =>
              last.ret.amount = (100000 - YtdBefore) * 85 + (YtdBefore + base - 100000) * 125
        /\ (YtdBefore = 95000 /\ base = 10000) =>
              /\ taxed_at_low(base, YtdBefore) = 5000
              /\ taxed_at_high(base, YtdBefore) = 5000
              /\ last.ret.amount = 1050 * Mills
              /\ RateIs(last.ret.rate, 105, 1000)

\* The engine taxed a base of 10000 after 95000 of the year.
C5_Witness ==
    /\ last.op = "compute"
    /\ IsPL(Owner(last.p.rental_agreement))
    /\ YtdBefore = 95000
    /\ last.p.base_rent = Float(10000)
    /\ last.ret = Returned(<<21, 200>>, 1050 * Mills)

\* C6: a stored payment of the landlord due in another calendar year than the target never
\* contributes to the target's ytd_before, even when it is earlier; the first payment of
\* a year is taxed from an empty low band whatever the previous years' totals are.
C6_YearIsolation ==
    Taxed =>
        LET otherYears == {k \in DOMAIN payments :
                              payments[k].date_due.year # last.p.date_due.year}
            landlord == Owner(last.p.rental_agreement)
        IN  /\ last.ret = compute_tax_for_payment(LastObject, WithoutRows(payments, otherYears))
            /\ (/\ IsPL(landlord) /\ PositiveBase
                /\ EarlierInYear(landlord, last.p.date_due, last.pk) = {}) =>
                  last.ret.amount = ExpectedTax(last.p.base_rent.v, 0)

\* The first 2024 payment of a PL landlord with 150000 stored for 2023 is taxed at 8.5%.
C6_Witness ==
    /\ last.op = "create"
    /\ IsPL(Owner(last.p.rental_agreement))
    /\ last.p.date_due.year = 2024
    /\ last.p.base_rent = Float(95000)
    /\ \E k \in DOMAIN payments :
          /\ payments[k].rental_agreement = last.p.rental_agreement
          /\ payments[k].date_due.year = 2023
          /\ payments[k].base_rent = 150000
    /\ last.ret = Returned(<<17, 200>>, 95000 * 85)

\* C7: two payments of a landlord with the same date_due never count each other in
\* ytd_before: each is taxed as if the other were not stored, so its result does not
\* depend on which of the two is saved first.
C7_SameDayExclusion ==
    Taxed =>
        LET sameDay == {k \in DOMAIN payments \ {last.pk} :
                           payments[k].date_due = last.p.date_due}
        IN  last.ret = compute_tax_for_payment(LastObject, WithoutRows(payments, sameDay))

\* A second payment of 95000 of a PL landlord was created for the day of a stored one:
\* both are taxed at 8.5%.
C7_Witness ==
    /\ last.op = "create"
    /\ IsPL(Owner(last.p.rental_agreement))
    /\ last.p.base_rent = Float(95000)
    /\ last.ret = Returned(<<17, 200>>, 95000 * 85)
    /\ \E k \in DOMAIN payments \ {last.pk} :
          /\ payments[k].rental_agreement = last.p.rental_agreement
          /\ payments[k].date_due = last.p.date_due
          /\ payments[k].base_rent = 95000
          /\ payments[k].tax_amount = 95000 * 85

\* C8: recomputing the tax of a stored payment never counts that payment's own stored row
\* in ytd_before, also when the edit moves its date_due to a later day of the year: the
\* result is the one the engine gives for a new payment with the submitted values on the
\* table of the other payments; saved again with the same values over the same other
\* payments it gets the same (rate, amount).
C8_RecomputeExcludesSelf ==
    [][last'.op = "update" =>
        LET k == last'.pk
            obj == last'.p
            landlord == Owner(obj.rental_agreement)
            others == WithoutRows(payments, {k})
            ytd == SumBaseRent(others, EarlierInYearOf(others, landlord, obj.date_due, None))
        IN  /\ last'.ret = compute_tax_for_payment([obj EXCEPT !.pk = None], others)
            /\ (IsPL(landlord) /\ obj.base_rent.v > 0) =>
                  last'.ret.amount = ExpectedTax(obj.base_rent.v, ytd)
            /\ (/\ last.op \in {"create", "update"}
                /\ last.pk = k
                /\ obj.rental_agreement = last.p.rental_agreement
                /\ obj.date_due = last.p.date_due
                /\ obj.base_rent = last.p.base_rent) =>
                  last'.ret = last.ret]_vars

\* The only payment of a PL landlord was moved to a later day of its year by an update and
\* is taxed from an empty low band.
C8_Witness ==
    /\ last.op = "update"
    /\ IsPL(Owner(last.p.rental_agreement))
    /\ last.old_due.year = last.p.date_due.year
    /\ Before(last.old_due, last.p.date_due)
    /\ EarlierInYear(Owner(last.p.rental_agreement), last.p.date_due, last.pk) = {}
    /\ last.p.base_rent = Float(150000)
    /\ last.ret.amount = 100000 * 85 + 50000 * 125

\* C2: for a payment whose landlord's tax_residency_country is not "PL" compared without
\* regard to letter case (None and the empty code included) the engine returns (0.0, 0.0),
\* whatever base_rent, date_due and the stored payments are; a landlord whose code is "pl"
\* in any letter case is taxed as a PL resident.
C2_NonResident ==
    (Taxed /\ Owner(last.p.rental_agreement) # None) =>
        /\ ~IsPL(Owner(last.p.rental_agreement)) => last.ret = Zero
        /\ (IsPL(Owner(last.p.rental_agreement)) /\ PositiveBase) =>
              ~last.ret.raised /\ last.ret.amount > 0

\* The engine was called for a positive base_rent of a DE landlord who has a stored payment
\* earlier in the year.
C2_Witness ==
    /\ last.op = "compute"
    /\ Owner(last.p.rental_agreement) # None
    /\ LandlordTable[Owner(last.p.rental_agreement)].tax_residency_country = Str(<<"D", "E">>)
    /\ last.p.base_rent = Float(10000)
    /\ YtdBefore > 0
    /\ last.ret = Zero

\* C3: for a PL landlord a payment whose base_rent is zero, negative or None yields
\* (0.0, 0.0), whatever the year-to-date total is.
C3_NoPositiveBase ==
    (/\ Taxed
     /\ IsPL(Owner(last.p.rental_agreement))
     /\ \/ last.p.base_rent.t = "None"
        \/ last.p.base_rent.t = "float" /\ last.p.base_rent.v <= 0) =>
        last.ret = Zero

\* The engine was called for a negative base_rent of a PL landlord with 95000 stored
\* earlier in the year.
C3_Witness ==
    /\ last.op = "compute"
    /\ IsPL(Owner(last.p.rental_agreement))
    /\ last.p.base_rent = Float(0 - 1000)
    /\ YtdBefore = 95000
    /\ last.ret = Zero

\* C10: the engine does not raise and returns (0.0, 0.0) for a payment without rental
\* agreement, with an agreement that has neither property nor unit, with an agreement
\* whose only link is a unit without building, with a landlord whose country code is
\* missing, and for a base_rent of None.
C10_DegradesToZero ==
    LET ra == last.p.rental_agreement
        country == LandlordTable[Owner(ra)].tax_residency_country
    IN  (/\ Taxed
         /\ \/ ra = None
            \/ ra # None /\ RentalAgreementTable[ra].property = None
                         /\ RentalAgreementTable[ra].unit = None
            \/ ra # None /\ RentalAgreementTable[ra].property = None
                         /\ RentalAgreementTable[ra].unit # None
                         /\ UnitTable[RentalAgreementTable[ra].unit].building = None
            \/ Owner(ra) # None /\ (country.t = "None" \/ country = Str(<<>>))
            \/ last.p.base_rent.t = "None") =>
            ~last.ret.raised /\ last.ret = Zero

\* The engine was called for a positive base_rent under an agreement whose unit has no
\* building.
C10_Witness ==
    /\ last.op = "compute"
    /\ last.p.rental_agreement # None
    /\ RentalAgreementTable[last.p.rental_agreement].unit # None
    /\ UnitTable[RentalAgreementTable[last.p.rental_agreement].unit].building = None
    /\ last.p.base_rent = Float(10000)
    /\ last.ret = Zero

\* The three payments of the scenario and nothing else: 40000 due Jan 1, 40000 due Feb 1,
\* 30000 due Mar 1 2024, of the PL landlord, created in this order.
ThreePayments ==
    /\ DOMAIN payments = {1, 2, 3}
    /\ \A k \in {1, 2, 3} : payments[k].rental_agreement = 1
    /\ payments[1].date_due = Date(2024, 1, 1) /\ payments[1].base_rent = 40000
    /\ payments[2].date_due = Date(2024, 2, 1) /\ payments[2].base_rent = 40000
    /\ payments[3].date_due = Date(2024, 3, 1) /\ payments[3].base_rent = 30000

\* C9: created in this order through the create view, payment 1 is stored with rate 0.085
\* and amount 3400, payment 2 with rate 0.085 and amount 3400, payment 3 with amount 2950
\* (20000 at 0.085 plus 10000 at 0.125) and rate 2950/30000.
C9_ThreePayments ==
    ThreePayments =>
        /\ RateIs(payments[1].tax_rate, 85, 1000) /\ payments[1].tax_amount = 3400 * Mills
        /\ RateIs(payments[2].tax_rate, 85, 1000) /\ payments[2].tax_amount = 3400 * Mills
        /\ payments[3].tax_amount = 2950 * Mills
        /\ payments[3].tax_amount = 20000 * 85 + 10000 * 125
        /\ RateIs(payments[3].tax_rate, 2950, 30000)

\* The third payment of the scenario has just been created.
C9_Witness ==
    /\ ThreePayments
    /\ last.op = "create" /\ last.pk = 3
    /\ last.ret = Returned(<<59, 600>>, 2950 * Mills)

\* C11: every failure mode of the tax computation, a non-numeric base_rent on a payment
\* of a PL landlord included, ends in the result (0.0, 0.0); no input makes the engine end
\* in an error.
C11_NeverRaises ==
    Taxed =>
        /\ ~last.ret.raised
        /\ (IsPL(Owner(last.p.rental_agreement)) /\ last.p.base_rent.t = "str") =>
              last.ret = Zero

\* C12: for a payment without date_due the engine returns (0.0, 0.0), also when the
\* landlord is a PL resident and base_rent is positive.
C12_DateRequired ==
    (Taxed /\ last.p.date_due = NoDate) => last.ret = Zero

\* C18: the landlord of a payment is the landlord of the rental agreement's property when
\* the agreement has a property with a landlord, otherwise the landlord of the building of
\* the agreement's unit; when neither gives a landlord (a payment without rental agreement
\* included) the engine returns (0.0, 0.0).
C18_LandlordResolution ==
    Taxed =>
        LET ra == last.p.rental_agreement
            resolved == IF OwnerByProperty(ra) # None THEN OwnerByProperty(ra)
                        ELSE OwnerByUnit(ra)
        IN  /\ resolved = None => last.ret = Zero
            /\ (resolved # None /\ ~IsPL(resolved)) => last.ret = Zero
            /\ (IsPL(resolved) /\ PositiveBase) =>
                  last.ret.amount =
                      ExpectedTax(last.p.base_rent.v,
                                  SumBaseRent(payments,
                                              EarlierInYear(resolved, last.p.date_due,
                                                            last.pk)))

\* The engine was called for a positive base_rent under an agreement whose property belongs
\* to a DE landlord and whose unit lies in a building of a PL landlord: the property decides.
C18_Witness ==
    /\ last.op = "compute"
    /\ last.p.rental_agreement # None
    /\ OwnerByProperty(last.p.rental_agreement) # None
    /\ ~IsPL(OwnerByProperty(last.p.rental_agreement))
    /\ IsPL(OwnerByUnit(last.p.rental_agreement))
    /\ last.p.base_rent = Float(10000)
    /\ last.ret = Zero

\* The engine was called for a positive base_rent under an agreement whose property has no
\* landlord and whose unit lies in a building of a PL landlord: the unit decides.
C18_ByUnit ==
    /\ last.op = "compute"
    /\ last.p.rental_agreement # None
    /\ RentalAgreementTable[last.p.rental_agreement].property # None
    /\ OwnerByProperty(last.p.rental_agreement) = None
    /\ IsPL(OwnerByUnit(last.p.rental_agreement))
    /\ last.p.base_rent = Float(10000)
    /\ last.ret.amount > 0

\* The last payment's base_rent begins below the threshold of the year and ends above it.
Straddles == YtdBefore < 100000 /\ YtdBefore + last.p.base_rent.v > 100000

\* The last result is a pair with 0.085 <= effective_rate <= 0.125 and
\* tax_amount = effective_rate * base_rent > 0, the rate strictly between the bracket
\* rates exactly when the payment straddles the threshold.
TaxedPair ==
    LET r == last.ret.rate IN
    /\ ~last.ret.raised
    /\ last.p.base_rent.t = "float"
    /\ r[2] > 0 /\ r[1] * 1000 >= 85 * r[2] /\ r[1] * 1000 <= 125 * r[2]
    /\ last.ret.amount > 0
    /\ RateOf(r, last.ret.amount, last.p.base_rent.v)
    /\ (r[1] * 1000 > 85 * r[2] /\ r[1] * 1000 < 125 * r[2]) <=> Straddles

\* C20: for every input the result of the engine is either (0.0, 0.0) or a pair with
\* 0.085 <= effective_rate <= 0.125 and tax_amount = effective_rate * base_rent > 0; the
\* rate lies strictly between the two bracket rates exactly when the payment straddles the
\* threshold.
C20_ResultShape == Taxed => (last.ret = Zero \/ TaxedPair)

\* C13: creating, editing or deleting a payment leaves the stored tax_rate and tax_amount
\* of every other payment unchanged; a sibling payment with a later date_due keeps the
\* values computed at its own last write.
C13_SiblingsKeepTax ==
    [][last'.op \in {"create", "update", "delete"} =>
          \A k \in DOMAIN payments \ {last'.pk} :
              /\ k \in DOMAIN payments'
              /\ payments'[k].tax_rate = payments[k].tax_rate
              /\ payments'[k].tax_amount = payments[k].tax_amount]_vars

\* A payment of a PL landlord has just been created with a date_due before that of a
\* stored payment of the same landlord and year; the later one still carries the tax of a
\* first payment of the year, which is no longer what the engine returns for it.
C13_Witness ==
    /\ last.op = "create"
    /\ IsPL(Owner(last.p.rental_agreement))
    /\ \E k \in DOMAIN payments \ {last.pk} :
          /\ Owner(payments[k].rental_agreement) = Owner(last.p.rental_agreement)
          /\ payments[k].date_due.year = last.p.date_due.year
          /\ Before(last.p.date_due, payments[k].date_due)
          /\ payments[k].tax_amount = ExpectedTax(payments[k].base_rent, 0)
          /\ payments[k].tax_amount
                # compute_tax_for_payment(
                      PaymentObject(k, payments[k].rental_agreement, payments[k].date_due,
                                    Float(payments[k].base_rent)),
                      payments).amount

\* C19: after a payment is created or updated through the views its stored tax_rate and
\* tax_amount are the pair the engine returned for the submitted values, its water is 0
\* and its total_amount is base_rent + coop_fee + electricity + gas + other_fees +
\* tax_amount.
C19_StoredRow ==
    last.op \in {"create", "update"} =>
        LET row == payments[last.pk]
            taxable == IsPL(Owner(last.p.rental_agreement)) /\ PositiveBase
        IN  /\ row.base_rent = last.p.base_rent.v
            /\ row.tax_rate = last.ret.rate
            /\ row.tax_amount = last.ret.amount
            /\ row.tax_amount = IF taxable THEN ExpectedTax(row.base_rent, YtdBefore) ELSE 0
            /\ taxable => RateOf(row.tax_rate, row.tax_amount, row.base_rent)
            /\ ~taxable => row.tax_rate = <<0, 1>>
            /\ row.water = 0
            /\ row.total_amount =
                  (row.base_rent + row.coop_fee + row.electricity + row.gas
                       + row.other_fees) * Mills + row.tax_amount

\* A payment of a PL landlord has just been updated with fees and a taxed base_rent.
C19_Witness ==
    /\ last.op = "update"
    /\ IsPL(Owner(last.p.rental_agreement))
    /\ payments[last.pk].base_rent = 95000
    /\ payments[last.pk].coop_fee = 100 /\ payments[last.pk].other_fees = 4000
    /\ payments[last.pk].tax_amount = 95000 * 85
    /\ payments[last.pk].total_amount = 99123 * Mills + 95000 * 85

\* The tax (mills) the engine owes the stored payment k on the table as it is now.
TaxDue(k) ==
    LET row == payments[k]
        landlord == Owner(row.rental_agreement)
    IN  IF IsPL(landlord) /\ row.base_rent > 0
        THEN ExpectedTax(row.base_rent,
                         SumBaseRent(payments, EarlierInYear(landlord, row.date_due, k)))
        ELSE 0

\* C14: every payment persisted by a payment-writing operation (the create view, the
\* update view, the generate_payments command with or without --overwrite) carries the
\* tax_rate and tax_amount the engine returns for that payment at that write.
C14_WrittenTaxIsComputed ==
    \A k \in last.written :
        /\ payments[k].tax_amount = TaxDue(k)
        /\ IF TaxDue(k) = 0 THEN payments[k].tax_rate = <<0, 1>>
           ELSE RateOf(payments[k].tax_rate, TaxDue(k), payments[k].base_rent)

\* C15: compute_tax_for_payment performs no writes: after a call the stored payments and
\* all their fields are what they were, the tax_rate and tax_amount of the payment passed
\* in included.
C15_ComputeWritesNothing ==
    [][last'.op = "compute" => (payments' = payments /\ nextPk' = nextPk)]_vars

\* The engine was called on a stored payment of a PL landlord and returned another amount
\* than the one the payment is stored with; the stored amount is still the old one.
C15_Witness ==
    /\ last.op = "compute"
    /\ last.pk \in DOMAIN payments
    /\ payments[last.pk].base_rent = 95000
    /\ payments[last.pk].tax_amount = 95000 * 85
    /\ last.ret.amount = 5000 * 85 + 90000 * 125

\* C17: a stored payment contributes to a landlord's ytd_before when its rental agreement
\* reaches the landlord by the property or by the building of the unit, and a payment that
\* reaches him both ways is counted once.
C17_EitherPath ==
    (Taxed /\ IsPL(Owner(last.p.rental_agreement)) /\ PositiveBase) =>
        LET landlord == Owner(last.p.rental_agreement)
            inYear == {k \in DOMAIN payments \ {last.pk} :
                          /\ payments[k].date_due.year = last.p.date_due.year
                          /\ Before(payments[k].date_due, last.p.date_due)}
            byProperty == {k \in inYear :
                              OwnerByProperty(payments[k].rental_agreement) = landlord}
            byUnit == {k \in inYear : OwnerByUnit(payments[k].rental_agreement) = landlord}
            ytd == SumBaseRent(payments, byProperty) + SumBaseRent(payments, byUnit)
                       - SumBaseRent(payments, byProperty \cap byUnit)
        IN  last.ret.amount = ExpectedTax(last.p.base_rent.v, ytd)

\* The engine was called for 40000 of the PL landlord while 50000 are stored under an
\* agreement that reaches him both ways and 30000 under one that reaches him by the unit
\* only: 80000 before, so 20000 at each rate.
C17_Witness ==
    /\ last.op = "compute"
    /\ Owner(last.p.rental_agreement) = 1
    /\ last.p.base_rent = Float(40000)
    /\ \E j, k \in DOMAIN payments :
          /\ payments[j].rental_agreement = 3 /\ payments[j].base_rent = 50000
          /\ payments[k].rental_agreement = 7 /\ payments[k].base_rent = 30000
          /\ DOMAIN payments = {j, k}
    /\ last.ret.amount = 20000 * 85 + 20000 * 125

\* The part of the stored payment k that its stored tax_amount taxes at the low rate.
LowTaxed(k) == (payments[k].base_rent * 125 - payments[k].tax_amount) \div (125 - 85)

\* C16: of two create requests for the same PL landlord and year that both read the
\* year-to-date sum before either commits, each computes ytd_before from the rows stored
\* at its read: the tax a request stores ignores every payment committed between its read
\* and its save.  (The interleaving the claim names is C16_Witness.)
C16_SnapshotTax ==
    \A r \in Requests :
        requests[r].pc = "saved" =>
            LET q == requests[r]
                landlord == Owner(q.obj.rental_agreement)
                before == EarlierInYear(landlord, q.obj.date_due, q.pk) \cap q.seen
            IN  /\ q.pk \in DOMAIN payments
                /\ payments[q.pk].tax_amount =
                      IF IsPL(landlord) /\ q.obj.base_rent.v > 0
                      THEN ExpectedTax(q.obj.base_rent.v, SumBaseRent(payments, before))
                      ELSE 0

\* Both requests read the empty table and then saved 95000 each for January and February:
\* the February payment is stored with the tax of a first payment of the year, and 190000
\* of the landlord's year are taxed at the low rate.
C16_Witness ==
    /\ \A r \in Requests : requests[r].pc = "saved" /\ requests[r].seen = {}
    /\ \E j, k \in DOMAIN payments :
          /\ {j, k} = {requests[r].pk : r \in Requests}
          /\ IsPL(Owner(payments[j].rental_agreement))
          /\ Owner(payments[j].rental_agreement) = Owner(payments[k].rental_agreement)
          /\ payments[j].date_due = D2024Jan /\ payments[k].date_due = D2024Feb
          /\ payments[k].tax_amount = ExpectedTax(payments[k].base_rent, 0)
          /\ payments[k].tax_amount # TaxDue(k)
          /\ LowTaxed(j) + LowTaxed(k) > 100000

\* C21: deleting a rental agreement deletes none of its payments: each stays stored with
\* a null rental_agreement and with its base_rent, tax_rate and tax_amount as they were
\* (and every other payment stays as it is).
C21_PaymentsSurviveAgreement ==
    [][last'.op = "delete_agreement" =>
          /\ DOMAIN payments' = DOMAIN payments
          /\ \A k \in DOMAIN payments :
                IF payments[k].rental_agreement = last'.p.rental_agreement
                THEN /\ payments'[k].rental_agreement = None
                     /\ payments'[k].base_rent = payments[k].base_rent
                     /\ payments'[k].tax_rate = payments[k].tax_rate
                     /\ payments'[k].tax_amount = payments[k].tax_amount
                ELSE payments'[k] = payments[k]]_vars

\* Agreement 1 has just been deleted; a payment that was created under it is stored
\* without rental agreement and with the tax of 95000 at the low rate.
C21_Witness ==
    /\ last.op = "delete_agreement"
    /\ last.p.rental_agreement = 1
    /\ 1 \notin agreements
    /\ \E k \in DOMAIN payments :
          /\ payments[k].rental_agreement = None
          /\ payments[k].base_rent = 95000
          /\ payments[k].tax_amount = 95000 * 85
          /\ payments[k].tax_rate = <<17, 200>>
    /\ \A k \in DOMAIN payments : payments[k].rental_agreement # 1

\* The stored payments were created in strictly increasing date_due order.
CreatedInDateOrder ==
    \A j, k \in DOMAIN payments :
        j < k => Before(payments[j].date_due, payments[k].date_due)

\* The sum of the stored tax_amount of the rows pks (mills).
RECURSIVE SumTaxAmount(_, _)
SumTaxAmount(db, pks) ==
    IF pks = {} THEN 0
    ELSE LET k == CHOOSE x \in pks : TRUE
         IN  db[k].tax_amount + SumTaxAmount(db, pks \ {k})

\* The sum over the rows pks of the part of base_rent that the stored tax_amount taxes at
\* the low rate.
RECURSIVE SumLowTaxed(_)
SumLowTaxed(pks) ==
    IF pks = {} THEN 0
    ELSE LET k == CHOOSE x \in pks : TRUE
         IN  (IF payments[k].base_rent > 0 THEN LowTaxed(k) ELSE 0) + SumLowTaxed(pks \ {k})

\* 0.085 * min(s, 100000) + 0.125 * max(0, s - 100000), in mills
YearTax(s) ==
    (IF s < 100000 THEN s ELSE 100000) * 85 + (IF s - 100000 > 0 THEN s - 100000 ELSE 0) * 125

\* C24: when all payments of one PL landlord in one calendar year were created one after
\* the other through the create form in strictly increasing date_due order, none edited or
\* deleted, their stored tax_amount sums to 0.085 * min(S, 100000) + 0.125 * max(0, S -
\* 100000) for S the sum of their base_rent, and the base_rent taxed at the low rate is at
\* most 100000 in total.
C24_YearTotal ==
    CreatedInDateOrder =>
        /\ SumTaxAmount(payments, DOMAIN payments)
              = YearTax(SumBaseRent(payments, DOMAIN payments))
        /\ SumLowTaxed(DOMAIN payments) <= 100000

\* The same for years in which no payment has a negative base_rent.
YearTotalOfNonNegative ==
    (CreatedInDateOrder /\ \A k \in DOMAIN payments : payments[k].base_rent >= 0) =>
        /\ SumTaxAmount(payments, DOMAIN payments)
              = YearTax(SumBaseRent(payments, DOMAIN payments))
        /\ SumLowTaxed(DOMAIN payments) <= 100000

\* The stored payment k carries the default amounts of its rental agreement.
HasDefaults(k) ==
    LET d == Defaults(payments[k].rental_agreement) IN
    /\ payments[k].base_rent = d.base_rent
    /\ payments[k].coop_fee = d.coop_fee
    /\ payments[k].electricity = d.electricity
    /\ payments[k].water = d.water
    /\ payments[k].gas = d.gas
    /\ payments[k].other_fees = d.other_fees
    /\ payments[k].total_amount = d.total_amount

\* The stored payments of the rental agreements active in the month of date due that are
\* due in that month.
PaymentsOfMonth(due) ==
    {k \in DOMAIN payments :
        /\ payments[k].rental_agreement \in agreements
        /\ ActiveIn(payments[k].rental_agreement, Date(due.year, due.month, 1),
                    Date(due.year, due.month, monthrange(due.year, due.month)))
        /\ payments[k].date_due.year = due.year
        /\ payments[k].date_due.month = due.month}

\* C29: a run of generate_payments with --overwrite for a year and month overwrites the
\* existing payments of each active rental agreement for that month with the agreement's
\* current default amounts, whatever due day those payments have: after the run every
\* payment of an active agreement due in the month carries the defaults.
C29_OverwritesTheMonth ==
    (last.op = "generate --overwrite" /\ ~last.ret.raised) =>
        \A k \in PaymentsOfMonth(last.p.date_due) : HasDefaults(k)

\* The same for the payments due on the due date of the run.
OverwritesTheDueDate ==
    (last.op = "generate --overwrite" /\ ~last.ret.raised) =>
        \A k \in PaymentsOfMonth(last.p.date_due) :
            payments[k].date_due = last.p.date_due => HasDefaults(k)

\* The payments of table db stored for rental agreement a with the due date due.
PaymentsAt(db, a, due) ==
    {k \in DOMAIN db : db[k].rental_agreement = a /\ db[k].date_due = due}

\* Rental agreement a is active in the month of date due.
ActiveInMonthOf(a, due) ==
    ActiveIn(a, Date(due.year, due.month, 1),
             Date(due.year, due.month, monthrange(due.year, due.month)))

\* What the claim C30 says of a step that is a run without --overwrite for a valid month.
IdempotentRun ==
    LET due == last'.p.date_due IN
    /\ (last.op = "generate" /\ last.p.date_due = due) =>
          payments' = payments /\ nextPk' = nextPk
    /\ \A a \in agreements :
          ActiveInMonthOf(a, due) => Cardinality(PaymentsAt(payments', a, due)) = 1
    /\ \A k \in DOMAIN payments' \ DOMAIN payments :
          LET a == payments'[k].rental_agreement IN a \in agreements /\ ActiveInMonthOf(a, due)

\* C30: running generate_payments twice for the same year, month and due day without
\* --overwrite is idempotent: the second run creates no payment and leaves every stored
\* payment unchanged; after any number of runs each rental agreement active in the month
\* has exactly one payment with the due date, and no payment was created for an inactive
\* one.
C30_Idempotent ==
    [][(last'.op = "generate" /\ last'.p.date_due # NoDate) => IdempotentRun]_vars

\* The same for the runs that start on a table with at most one payment for each rental
\* agreement and due date.
IdempotentWithoutDuplicates ==
    [][(/\ last'.op = "generate" /\ last'.p.date_due # NoDate
        /\ \A a \in agreements : Cardinality(PaymentsAt(payments, a, last'.p.date_due)) <= 1)
          => IdempotentRun]_vars

\* C23: a valid registration adds exactly one user, whose role is TENANT unless the
\* landlord option was chosen, and exactly one profile record, of that role (Tenant or
\* Landlord); an invalid registration (the passwords differ) adds no user and no profile.
C23_Registration ==
    [][reply'.op = "register" =>
        LET form == reply'.form
            e == form.email
        IN  IF form.password1 = form.password2 /\ e \notin DOMAIN users
            THEN /\ DOMAIN users' = DOMAIN users \cup {e}
                 /\ \A u \in DOMAIN users : users'[u] = users[u]
                 /\ users'[e] = (IF form.is_landlord THEN LANDLORD ELSE TENANT)
                 /\ IF form.is_landlord
                    THEN /\ landlords' = landlords \cup {e} /\ e \notin landlords
                         /\ tenants' = tenants
                    ELSE /\ tenants' = tenants \cup {e} /\ e \notin tenants
                         /\ landlords' = landlords
                 /\ reply'.status = 302
            ELSE /\ users' = users /\ tenants' = tenants /\ landlords' = landlords
                 /\ reply'.status = 200]_vars

\* A landlord has just registered next to a stored tenant: each has the one profile of
\* the role.
C23_Witness ==
    /\ reply.op = "register" /\ reply.status = 302 /\ reply.form.is_landlord
    /\ users[reply.user] = LANDLORD
    /\ reply.user \in landlords /\ reply.user \notin tenants
    /\ \E t \in DOMAIN users : users[t] = TENANT /\ t \in tenants /\ t \notin landlords
    /\ Cardinality(tenants) + Cardinality(landlords) = Cardinality(DOMAIN users)

\* A registration with two different passwords was refused.
RegistrationRefused ==
    /\ reply.op = "register" /\ reply.status = 200
    /\ reply.form.password1 # reply.form.password2
    /\ reply.user \notin DOMAIN users

\* C25: TenantInvitation.update_expired_invitations changes to EXPIRED exactly the
\* invitations that are PENDING with expires_at earlier than now, leaves every other
\* invitation (ACCEPTED, DECLINED, EXPIRED, or PENDING and not yet expired) unchanged, and
\* returns the number of invitations it changed.  Checked on the command and on the list
\* view, which run the sweep and nothing else.
C25_ExpirySweep ==
    [][(\/ reply'.op = "update_expired_invitations"
        \/ reply'.op = "list" /\ reply'.status = 200) =>
          /\ DOMAIN invitations' = DOMAIN invitations
          /\ \A i \in DOMAIN invitations :
                IF invitations[i].status = PENDING /\ invitations[i].expires_at < now
                THEN invitations'[i] = [invitations[i] EXCEPT !.status = EXPIRED]
                ELSE invitations'[i] = invitations[i]
          /\ reply'.count =
                Cardinality({i \in DOMAIN invitations : invitations'[i] # invitations[i]})]_vars

\* The command has just changed one invitation, which is EXPIRED now, and left the
\* declined one, whose expires_at has passed as well.
C25_Witness ==
    /\ reply.op = "update_expired_invitations"
    /\ reply.count = 1
    /\ 2 \in DOMAIN invitations
    /\ invitations[2].status = EXPIRED /\ invitations[2].expires_at < now
    /\ invitations[1].status = DECLINED /\ invitations[1].expires_at < now

\* The command has just run over a PENDING invitation that is not yet expired and over an
\* ACCEPTED one past its expires_at, and changed nothing.
SweepLeftRows ==
    /\ reply.op = "update_expired_invitations"
    /\ reply.count = 0
    /\ \E i \in DOMAIN invitations :
          \/ invitations[i].status = PENDING /\ invitations[i].expires_at >= now
          \/ invitations[i].status = ACCEPTED /\ invitations[i].expires_at < now

\* C22: a GET request to the accept_invitation URL with the token of a pending, unexpired
\* invitation answers with a redirect (302) and leaves that invitation in status ACCEPTED.
C22_GetAccepts ==
    (/\ reply.op = "accept GET"
     /\ reply.before.status = PENDING
     /\ ~is_expired(reply.before, now)) =>
        /\ reply.status = 302
        /\ invitations[reply.inv].status = ACCEPTED

\* What the view does with such a request: it renders the form (200) and the invitation
\* stays PENDING.
GetShowsForm ==
    (/\ reply.op = "accept GET"
     /\ reply.before.status = PENDING
     /\ ~is_expired(reply.before, now)) =>
        /\ reply.status = 200
        /\ invitations[reply.inv] = reply.before

\* Invitation i becomes ACCEPTED in this step.
BecomesAccepted(i) ==
    /\ invitations'[i].status = ACCEPTED
    /\ i \in DOMAIN invitations => invitations[i].status # ACCEPTED

\* In this step an invitation becomes ACCEPTED only from PENDING, only by the accept POST
\* for it, and only at a time not later than its expires_at.
AcceptedOnlyFromPending ==
    \A i \in DOMAIN invitations' :
        BecomesAccepted(i) =>
            /\ i \in DOMAIN invitations
            /\ invitations[i].status = PENDING
            /\ now' <= invitations[i].expires_at
            /\ reply'.op = "accept POST" /\ reply'.inv = i

\* This step is an accept POST for the token of a stored invitation that is EXPIRED,
\* ACCEPTED, DECLINED or past its expires_at.
RefusedAccept ==
    /\ reply'.op = "accept POST"
    /\ reply'.inv \in DOMAIN invitations
    /\ \/ invitations[reply'.inv].status \in {EXPIRED, ACCEPTED, DECLINED}
       \/ now' > invitations[reply'.inv].expires_at

\* C26 as stated: in every sequence of send, resend, cancel, expiry-sweep and accept
\* operations an invitation becomes ACCEPTED only from PENDING and only at a time not
\* later than its expires_at; an accept POST for a token whose invitation is EXPIRED,
\* ACCEPTED, DECLINED or past expires_at changes no invitation, no user role and creates
\* no Tenant profile.
C26_RefusedAcceptChangesNothing ==
    [][/\ AcceptedOnlyFromPending
       /\ RefusedAccept =>
             invitations' = invitations /\ users' = users /\ tenants' = tenants]_vars

\* C26, amended: an invitation becomes ACCEPTED only from PENDING and only at a time not
\* later than its expires_at; an accept POST for a token whose invitation is EXPIRED,
\* ACCEPTED, DECLINED or past expires_at changes no user role, creates no Tenant profile,
\* and changes no invitation except that the invitations that were PENDING with expires_at
\* earlier than now become EXPIRED (the expiry sweep the view runs first).
C26_RefusedAcceptOnlySweeps ==
    [][/\ AcceptedOnlyFromPending
       /\ RefusedAccept =>
             /\ users' = users /\ tenants' = tenants
             /\ DOMAIN invitations' = DOMAIN invitations
             /\ \A i \in DOMAIN invitations :
                   \/ invitations'[i] = invitations[i]
                   \/ /\ invitations[i].status = PENDING
                      /\ invitations[i].expires_at < now
                      /\ invitations'[i] = [invitations[i] EXCEPT !.status = EXPIRED]]_vars

\* An accept POST for a PENDING invitation past its expires_at has just been answered 404:
\* the invitation is EXPIRED now, and the invited email has no user and no Tenant profile.
C26_Witness ==
    /\ reply.op = "accept POST"
    /\ reply.before.status = PENDING
    /\ reply.before.expires_at < now
    /\ reply.status = 404
    /\ invitations[reply.inv] = [reply.before EXCEPT !.status = EXPIRED]
    /\ reply.before.email = Cat
    /\ Cat \notin DOMAIN users /\ Cat \notin tenants

\* An accept POST at the instant expires_at has just accepted the invitation of a
\* registered landlord, who is a TENANT with a Tenant profile now.
AcceptedAtExpiry ==
    /\ reply.op = "accept POST" /\ reply.status = 302 /\ reply.success
    /\ reply.before.status = PENDING
    /\ now = reply.before.expires_at
    /\ invitations[reply.inv].status = ACCEPTED
    /\ reply.before.email = Bob
    /\ users[Bob] = TENANT /\ Bob \in tenants

\* An accept POST found the invitation PENDING after the sweep and expired at the test:
\* it was refused with a redirect and is still PENDING.
ExpiredBetweenSweepAndTest ==
    /\ reply.op = "accept POST" /\ reply.status = 302 /\ ~reply.success
    /\ invitations[reply.inv].status = PENDING
    /\ now > invitations[reply.inv].expires_at

\* C27: whenever a resend request reports success for an invitation, that invitation is
\* afterwards PENDING and not expired, so that the emailed link can still be accepted (an
\* EXPIRED invitation is reset to PENDING with expires_at = now + 7 days); a resend for an
\* ACCEPTED or DECLINED invitation or for another landlord's invitation changes nothing.
C27_ResendKeepsLinkAlive ==
    [][reply'.op = "resend" =>
        LET id == reply'.inv IN
        /\ reply'.success =>
              /\ id \in DOMAIN invitations'
              /\ invitations'[id].status = PENDING
              /\ ~is_expired(invitations'[id], now')
              /\ invitations[id].status = EXPIRED =>
                    invitations'[id].expires_at = now + SevenDays
        /\ (/\ id \in DOMAIN invitations
            /\ \/ invitations[id].status \in {ACCEPTED, DECLINED}
               \/ invitations[id].landlord # reply'.user) =>
              /\ ~reply'.success
              /\ invitations' = invitations /\ users' = users /\ tenants' = tenants]_vars

\* The same without the promise for the invitations that are PENDING at the resend: those
\* keep their expires_at.
ResendResetsExpired ==
    [][reply'.op = "resend" =>
        LET id == reply'.inv IN
        /\ reply'.success =>
              /\ id \in DOMAIN invitations'
              /\ invitations'[id].status = PENDING
              /\ IF invitations[id].status = EXPIRED
                 THEN invitations'[id].expires_at = now + SevenDays
                 ELSE invitations'[id].expires_at = invitations[id].expires_at
        /\ (/\ id \in DOMAIN invitations
            /\ \/ invitations[id].status \in {ACCEPTED, DECLINED}
               \/ invitations[id].landlord # reply'.user) =>
              /\ ~reply'.success
              /\ invitations' = invitations /\ users' = users /\ tenants' = tenants]_vars

\* C28: a cancel_invitation request deletes the named invitation only if it was sent by
\* the requesting landlord and its status is PENDING, EXPIRED or ACCEPTED; for another
\* landlord's invitation or a DECLINED one no invitation is deleted or modified.  (No
\* cancel request deletes or modifies any other invitation than the named one.)
C28_CancelOwnOnly ==
    [][reply'.op = "cancel" =>
        LET id == reply'.inv
            u == reply'.user
        IN  /\ DOMAIN invitations' \subseteq DOMAIN invitations
            /\ \A i \in DOMAIN invitations \ {id} :
                  i \in DOMAIN invitations' /\ invitations'[i] = invitations[i]
            /\ id \in DOMAIN invitations =>
                  /\ id \in DOMAIN invitations' => invitations'[id] = invitations[id]
                  /\ id \notin DOMAIN invitations' =>
                        /\ test_func(u)
                        /\ invitations[id].landlord = u
                        /\ invitations[id].status \in {PENDING, EXPIRED, ACCEPTED}
                  /\ (invitations[id].landlord # u \/ invitations[id].status = DECLINED) =>
                        invitations' = invitations /\ ~reply'.success]_vars

\* The landlord bob has just asked to cancel a PENDING invitation of the landlord ann: it
\* is stored as it was.
C28_Witness ==
    /\ reply.op = "cancel" /\ reply.user = Bob /\ reply.status = 302 /\ ~reply.success
    /\ users[Bob] = LANDLORD
    /\ reply.before.landlord = Ann /\ reply.before.status = PENDING
    /\ reply.inv \in DOMAIN invitations
    /\ invitations[reply.inv] = reply.before

\* A landlord has just cancelled an ACCEPTED invitation of his own; the declined one is
\* stored.
CancelledOwn ==
    /\ reply.op = "cancel" /\ reply.success
    /\ reply.before.landlord = reply.user /\ reply.before.status = ACCEPTED
    /\ reply.inv \notin DOMAIN invitations
    /\ 1 \in DOMAIN invitations

\* The landlord ann has just asked to cancel her DECLINED invitation: it is stored as it was.
DeclinedStays ==
    /\ reply.op = "cancel" /\ reply.user = Ann /\ ~reply.success
    /\ reply.before.status = DECLINED
    /\ invitations[reply.inv] = reply.before

====
